---- MODULE Spec2Model ----
(***************************************************************************)
(* Structured-thinking template manager: the template catalog, the         *)
(* sessions instantiated from templates and the step cursor of a session.  *)
(* The manager modelled is the persisting TemplateManager (counter-based   *)
(* ids); its catalog is seeded with the built-in templates of the          *)
(* templates directory.                                                    *)
(*                                                                         *)
(* JavaScript objects are references: a step list lives in `heap` and a    *)
(* template or a session holds the index of its list, so that two owners   *)
(* of one list see each other's writes.                                    *)
(***************************************************************************)
EXTENDS Integers, Sequences, FiniteSets, TLC

VARIABLES
    templates,          \* Map<string, ThinkingTemplate>: id -> template record
    sessions,           \* Map<string, TemplateSession>: id -> session record
    heap,               \* the step arrays, by reference
    currentSessionId,   \* id of the session created last, or NoId
    stepCounter,        \* counters behind generateId
    sessionCounter,
    templateCounter,
    file,               \* the content of the data file templates.json
    recommendationHistory,  \* TemplateRecommenderService's log of recommendations
    chains,             \* Map<string, VerificationChain>: id -> chain record
    currentChainId,     \* id of the chain created last, or NoId
    chainStepCounter,   \* VerificationManager's stepCounter
    chainCounter,       \* VerificationManager's chainCounter
    verificationFile,   \* the content of the data file verification.json
    now,                \* the clock read by `new Date()`
    loaded,             \* per manager: initializeAsync has completed
    faults,             \* the file operations that fail at present
    persistence,        \* the template PersistenceManager and its data file
    response            \* the reply to the last request

vars == <<templates, sessions, heap, currentSessionId, stepCounter,
          sessionCounter, templateCounter, file, recommendationHistory,
          chains, currentChainId, chainStepCounter, chainCounter,
          verificationFile, now, loaded, faults, persistence, response>>

\* The fields of VerificationManager.
verificationState == <<chains, currentChainId, chainStepCounter, chainCounter>>

managerState == <<templates, sessions, heap, currentSessionId, stepCounter,
                  sessionCounter, templateCounter>>

---------------------------------------------------------------------------
(* Bounds of the model *)

MaxTemplates == 1      \* createTemplate calls that succeed
MaxSteps == 2          \* steps in a createTemplate request
MaxSessions == 2       \* sessions created
MaxTime == 2           \* clock values
MaxStepInput == 2      \* step ids "step-1".."step-<MaxStepInput>" named by updateStep requests
MaxHistory == 1        \* entries of the recommendation history
MaxChains == 2         \* verification chains created
MaxChainSteps == 2     \* verification steps added, over all chains

---------------------------------------------------------------------------
(* Values *)

\* An optional Date that is not set (lastUsed?, endTime?).
Unset == 0

\* currentSessionId before any session exists.
NoId == "null"

\* An argument that is not passed, and an optional field that is undefined,
\* is the empty set; a value v that is passed or stored is {v}.
Undefined == {}

Given(v) == {v}

\* The decimal text of a counter, as a template literal prints a number.
Digits == <<"0", "1", "2", "3", "4", "5", "6", "7", "8", "9">>

RECURSIVE Decimal(_)
Decimal(n) ==
    IF n < 10 THEN Digits[n + 1] ELSE Decimal(n \div 10) \o Digits[(n % 10) + 1]

\* generateId's result `${prefix}-${counter}`, for the counter just incremented.
GenerateId(prefix, counter) == prefix \o "-" \o Decimal(counter)

\* The text of a built-in step stands for the step's paragraph, which is
\* longer than every problem description of the model and so part of none.
BuiltInStepText == "builtin step text"

\* The steps of a built-in template: ids step-1..step-n, order 1..n,
\* isComplete false.
BuiltInSteps(n) ==
    [i \in 1..n |-> [id |-> GenerateId("step", i), content |-> BuiltInStepText,
                     order |-> i, isComplete |-> FALSE]]

\* builtInTemplates, in the order of templates/index.ts.
BuiltInTemplates ==
    << [id |-> "solution-architecture-template",
        name |-> "Solution Architecture Planning", category |-> "planning",
        description |-> "Systematically analyze project requirements and produce structured technical approach and implementation tasks",
        stepCount |-> 5],
       [id |-> "north-star-metric-template",
        name |-> "North Star Metric Strategy", category |-> "analysis",
        description |-> "Identify a single, powerful measurement that best captures customer value and predicts business growth, then break it down into actionable levers and create an implementation plan.",
        stepCount |-> 6],
       [id |-> "user-persona-template",
        name |-> "User Persona Generator", category |-> "analysis",
        description |-> "Create detailed, actionable user personas that accurately reflect target audience segments to guide product design, marketing, and business strategy.",
        stepCount |-> 8],
       [id |-> "tech-knowledge-base-template",
        name |-> "Technical Knowledge Base Generator", category |-> "research",
        description |-> "Create comprehensive, well-structured technical documentation that combines theoretical understanding with practical implementation guidance.",
        stepCount |-> 10] >>

BuiltInIds == {BuiltInTemplates[i].id : i \in 1..Len(BuiltInTemplates)}

BuiltInIndex(id) == CHOOSE i \in 1..Len(BuiltInTemplates) : BuiltInTemplates[i].id = id

---------------------------------------------------------------------------
(* Strings, as the recommender reads them *)

UpperCaseLetters == "ABCDEFGHIJKLMNOPQRSTUVWXYZ"

LowerCaseLetters == "abcdefghijklmnopqrstuvwxyz"

\* The characters the regular-expression class \w matches.
WordCharacters == UpperCaseLetters \o LowerCaseLetters \o "0123456789_"

CharAt(s, i) == SubSeq(s, i, i)

LowerChar(c) ==
    IF \E i \in 1..Len(UpperCaseLetters) : CharAt(UpperCaseLetters, i) = c
    THEN CharAt(LowerCaseLetters,
                CHOOSE i \in 1..Len(UpperCaseLetters) : CharAt(UpperCaseLetters, i) = c)
    ELSE c

\* String.prototype.toLowerCase, character by character (the string is
\* halved rather than peeled to keep the recursion shallow).
RECURSIVE ToLowerCase(_)
ToLowerCase(s) ==
    IF Len(s) = 0 THEN s
    ELSE IF Len(s) = 1 THEN LowerChar(s)
    ELSE ToLowerCase(SubSeq(s, 1, Len(s) \div 2))
            \o ToLowerCase(SubSeq(s, (Len(s) \div 2) + 1, Len(s)))

\* The positions at which w occurs in s.
Occurrences(s, w) ==
    {i \in 1..(Len(s) - Len(w) + 1) : SubSeq(s, i, i + Len(w) - 1) = w}

\* String.prototype.includes.
Includes(s, w) == Occurrences(s, w) # {}

IsWordAt(s, i) ==
    /\ i >= 1
    /\ i <= Len(s)
    /\ Includes(WordCharacters, CharAt(s, i))

\* The assertion \b just before position i of s (i = Len(s) + 1: at the end).
WordBoundary(s, i) == IsWordAt(s, i - 1) # IsWordAt(s, i)

\* new RegExp(`\\b${keyword}\\b`).test(s)
TestWholeWord(s, keyword) ==
    \E i \in Occurrences(s, keyword) :
        WordBoundary(s, i) /\ WordBoundary(s, i + Len(keyword))

\* /(\b|^)(a1|a2|...)(\b|$)/i.test(s), for s in lower case and the
\* alternatives a1, a2, ... written out in lower case.
TestPattern(s, alternatives) ==
    \E a \in alternatives : \E i \in Occurrences(s, a) :
        /\ i = 1 \/ WordBoundary(s, i)
        /\ i + Len(a) = Len(s) + 1 \/ WordBoundary(s, i + Len(a))

\* The positions at which a maximal run of characters other than the space
\* starts in s.
WordStarts(s) ==
    {i \in 1..Len(s) : CharAt(s, i) # " " /\ (i = 1 \/ CharAt(s, i - 1) = " ")}

\* The run that starts at position i.
WordAt(s, i) ==
    SubSeq(s, i, CHOOSE j \in i..Len(s) :
                    /\ \A k \in i..j : CharAt(s, k) # " "
                    /\ j = Len(s) \/ CharAt(s, j + 1) = " ")

\* s.split(/\s+/).filter(w => w.length > 4): the runs of more than four
\* characters, in their order in s.
SubstantialWords(s) ==
    LET starts == WordStarts(s)
        words == [k \in 1..Cardinality(starts) |->
                    WordAt(s, CHOOSE i \in starts :
                                Cardinality({j \in starts : j < i}) = k - 1)]
    IN  SelectSeq(words, LAMBDA w : Len(w) > 4)

---------------------------------------------------------------------------
(* TemplateRecommender. Scores are kept in tenths and confidences in
   thousandths, which is exact for the sums the model reaches. *)

\* The keys of categoryKeywords, in the order Object.entries lists them.
Categories ==
    <<"analysis", "planning", "debugging", "decision", "research", "verification",
      "custom">>

categoryKeywords ==
    [analysis |-> {"analyze", "examine", "study", "investigate", "assess",
                   "evaluate", "understand", "break down", "review", "compare",
                   "contrast", "identify", "patterns", "interpret", "correlate"},
     planning |-> {"plan", "implement", "strategy", "roadmap", "timeline",
                   "schedule", "organize", "prepare", "develop", "outline",
                   "milestones", "resources", "dependencies", "budget", "allocate"},
     debugging |-> {"debug", "fix", "issue", "problem", "error", "bug",
                    "troubleshoot", "diagnose", "resolve", "failure", "crash",
                    "exception", "defect", "unexpected", "regression", "symptoms"},
     decision |-> {"decide", "choice", "option", "select", "determine", "choose",
                   "consider", "weigh", "compare", "trade-off", "pros", "cons",
                   "alternatives", "criteria", "priority", "preference"},
     research |-> {"research", "investigate", "explore", "discover", "study",
                   "literature", "background", "information", "data", "survey",
                   "findings", "sources", "evidence", "gaps", "synthesis"},
     verification |-> {"verify", "validate", "check", "confirm", "prove", "test",
                       "ensure", "correct", "accurate", "true", "valid", "reliable",
                       "consistent", "double-check", "assertions"},
     custom |-> {}]

\* contextPatterns: each regular expression is (\b|^)(...)(\b|$) with flag i;
\* `alternatives` are the strings its middle group matches, weight in tenths.
contextPatterns ==
    << [category |-> "debugging", weight |-> 30,
        alternatives |-> {"not working", "fails", "broken", "doesn't work",
                          "won't compile", "doesn't run"}],
       [category |-> "debugging", weight |-> 30,
        alternatives |-> {"error", "exception", "crash", "bug"}],
       [category |-> "planning", weight |-> 30,
        alternatives |-> {"need to implement", "need to build", "need to create",
                          "need to develop", "how can i implement",
                          "how can i build", "how can we implement",
                          "how can we build", "how should i implement",
                          "how should i build", "how should we implement",
                          "how should we build"}],
       [category |-> "planning", weight |-> 25,
        alternatives |-> {"timeline", "roadmap", "milestone", "project plan"}],
       [category |-> "decision", weight |-> 30,
        alternatives |-> {"which one", "which option", "should i choose",
                          "deciding between", "better choice", "better option"}],
       [category |-> "decision", weight |-> 25,
        alternatives |-> {"pros and cons", "advantages", "disadvantages",
                          "benefits", "drawbacks"}],
       [category |-> "analysis", weight |-> 30,
        alternatives |-> {"analyze", "understand why", "what causes", "how does",
                          "evaluate", "assessment"}],
       [category |-> "analysis", weight |-> 25,
        alternatives |-> {"pattern", "trend", "correlation",
                          "relationship between", "impact of"}],
       [category |-> "research", weight |-> 30,
        alternatives |-> {"research", "study", "learn about", "find out",
                          "information on", "look into"}],
       [category |-> "research", weight |-> 25,
        alternatives |-> {"literature", "sources", "references", "papers",
                          "background information"}],
       [category |-> "verification", weight |-> 30,
        alternatives |-> {"verify", "confirm", "validate", "is it true",
                          "check if", "test whether"}],
       [category |-> "verification", weight |-> 25,
        alternatives |-> {"accuracy", "correctness", "validity", "reliable",
                          "true or false"}] >>

\* The total weight of the patterns of `category` (of every category when
\* `category` is NoId) that match the description.
RECURSIVE MatchedWeightFrom(_, _, _)
MatchedWeightFrom(description, category, i) ==
    IF i > Len(contextPatterns) THEN 0
    ELSE (IF /\ category \in {NoId, contextPatterns[i].category}
             /\ TestPattern(description, contextPatterns[i].alternatives)
          THEN contextPatterns[i].weight ELSE 0)
         + MatchedWeightFrom(description, category, i + 1)

\* calculateKeywordScore: 2 for a keyword present as a whole word, 1 for one
\* present only inside a word.
CalculateKeywordScore(description, category) ==
    LET present == {k \in categoryKeywords[category] : Includes(description, k)}
        whole == {k \in present : TestWholeWord(description, k)}
    IN  20 * Cardinality(whole) + 10 * Cardinality(present \ whole)

\* calculateTemplateSpecificScore, first part: 3 when the description
\* includes the template's name.
NameScore(description, name) ==
    IF Includes(description, ToLowerCase(name)) THEN 30 ELSE 0

\* calculateTemplateSpecificScore, second part: 0.5 for each substantial word
\* of the template's description that the description includes.
DescriptionWordsScore(description, templateDescription) ==
    LET templateWords == SubstantialWords(ToLowerCase(templateDescription))
    IN  5 * Cardinality({i \in 1..Len(templateWords) :
                            Includes(description, templateWords[i])})

\* calculateTemplateSpecificScore, third part, for one step: 1 when the
\* description includes the step's text.
StepContentScore(description, content) ==
    IF Includes(description, ToLowerCase(content)) THEN 10 ELSE 0

CalculateUsageHistoryScoreFromLog(template) ==
    Cardinality({i \in 1..Len(recommendationHistory) :
                    /\ recommendationHistory[i].templateId = template.id
                    /\ recommendationHistory[i].wasAccepted})

\* calculateUsageHistoryScore: Math.min(usageCount / 10, 1).
CalculateUsageHistoryScore(template) ==
    IF template.usageCount < 10 THEN template.usageCount ELSE 10

\* scores.sort((a, b) => b.score - a.score)[0]: the sort is stable, so the
\* first of the entries with the greatest score comes out in front.
FirstMaximum(scores) ==
    CHOOSE i \in 1..Len(scores) :
        /\ \A j \in 1..Len(scores) : scores[j] <= scores[i]
        /\ \A j \in 1..(i - 1) : scores[j] < scores[i]

\* identifyCategory's answer for the combined scores of the categories.
TopCategory(combinedScores) ==
    IF combinedScores[FirstMaximum(combinedScores)] > 0
    THEN Categories[FirstMaximum(combinedScores)]
    ELSE "analysis"

\* identifyCategory: 1.5 for a keyword present as a whole word, 0.7 for one
\* present only inside a word, plus the weights of the matching patterns of
\* the category; the stable sort leaves the first of the best categories in
\* front, and a best score of 0 gives 'analysis'.
CombinedScores(description) ==
    [i \in 1..Len(Categories) |->
        LET present == {k \in categoryKeywords[Categories[i]] :
                            Includes(ToLowerCase(description), k)}
            whole == {k \in present : TestWholeWord(ToLowerCase(description), k)}
        IN  15 * Cardinality(whole) + 7 * Cardinality(present \ whole)
            + MatchedWeightFrom(ToLowerCase(description), Categories[i], 1)]

IdentifyCategory(description) == TopCategory(CombinedScores(description))

\* analyzeContext's result: the category and the confidence
\* min(0.95, patternScore * 0.1 + keywordScore * 0.05), 0.3 when that is 0.
\* `aboveThreshold` is the test confidence > 0.6 of autoSelectTemplate; the
\* floating-point sum that is 0.6 in exact arithmetic comes out as
\* 0.6000000000000001 unless it is 5 * 0.1 + 2 * 0.05.
ContextAnalysis(category, patternScore, keywordScore) ==
    LET sum == 10 * patternScore + 50 * keywordScore
    IN  [category |-> category,
         confidence |-> IF sum > 950 THEN 950 ELSE IF sum > 0 THEN sum ELSE 300,
         aboveThreshold |-> sum > 600 \/ (sum = 600 /\ patternScore # 50)]

\* The keywords of the category that the description includes.
MatchedKeywords(normalizedDesc, category) ==
    {k \in categoryKeywords[category] : Includes(normalizedDesc, k)}

\* analyzeContext once the category is identified: the pattern score is the
\* weight of all matching patterns, the keyword score the number of the
\* category's keywords present.
AnalyzeCategory(normalizedDesc, category) ==
    ContextAnalysis(category, MatchedWeightFrom(normalizedDesc, NoId, 1),
                    Cardinality(MatchedKeywords(normalizedDesc, category)))

\* TemplateRecommender.analyzeContext.
AnalyzeContext(description) ==
    AnalyzeCategory(ToLowerCase(description),
                    IdentifyCategory(ToLowerCase(description)))

---------------------------------------------------------------------------
(* Inputs *)

\* Session requests name the smallest built-in, the created templates and an
\* id that is in no catalog.
TemplateIdInputs == {"solution-architecture-template"} \cup {GenerateId("template", i) : i \in 1..MaxTemplates}
                        \cup {"template-404"}

SessionIdInputs == {GenerateId("session", i) : i \in 1..MaxSessions} \cup {"session-404"}

StepIdInputs == {GenerateId("step", i) : i \in 1..MaxStepInput} \cup {"step-404"}

ContentInputs == {"a"}

\* createTemplate requests: the well-formed ones (1..MaxSteps steps, any
\* orders from 1 up) and, for each check of the validator, requests failing it.
GoodStepContents == {"c"}

GoodStepInputs == [content : GoodStepContents, order : {1, 2}]

GoodCreateTemplateInputs ==
    [name : {"T"}, category : {"custom"}, description : {"D"},
     steps : UNION {[1..n -> GoodStepInputs] : n \in 1..MaxSteps}]

BadCreateTemplateInputs ==
    LET good == [name |-> "T", category |-> "custom", description |-> "D",
                 steps |-> <<[content |-> "c", order |-> 1]>>]
    IN  { [good EXCEPT !.name = ""],
          [good EXCEPT !.category = ""],
          [good EXCEPT !.description = ""],
          [good EXCEPT !.steps = <<>>],
          [good EXCEPT !.steps = <<[content |-> "", order |-> 1]>>],
          [good EXCEPT !.steps = <<[content |-> "c", order |-> 0]>>],
          [good EXCEPT !.steps = <<[content |-> "c", order |-> 1],
                                   [content |-> "c", order |-> 0]>>] }

CreateTemplateInputs == GoodCreateTemplateInputs \cup BadCreateTemplateInputs

\* The createTemplate and updateStep requests sent among commands.
CommandCreateTemplateInputs ==
    { [name |-> "T", category |-> "custom", description |-> "D",
       steps |-> <<[content |-> "c", order |-> 1]>>],
      [name |-> "", category |-> "custom", description |-> "D",
       steps |-> <<[content |-> "c", order |-> 1]>>] }

CommandStepIdInputs == {GenerateId("step", 1), "step-404"}

\* Problem descriptions: one the recommender reads as debugging with low
\* confidence, one it reads as research with confidence above 0.6, and the
\* empty one, which the commands refuse.
ProblemDescriptionInputs == {"Fix this bug", "Research the literature", ""}

\* Problem descriptions of recommend-template: those, one with a single
\* keyword and no pattern, one whose two keywords are of different categories,
\* and one that holds no keyword and no pattern.
RecommendDescriptionInputs ==
    ProblemDescriptionInputs \cup {"Fix this", "Plan the fix", "Hello"}

\* The limit of a recommend-template command: absent, 0, negative, and one
\* greater than the number of templates.
LimitInputs == {Undefined, Given(0), Given(-1), Given(5)}

---------------------------------------------------------------------------
(* The recommender's functions of the description, tabulated over the texts
   the requests and the catalog can hold *)

KnownNames ==
    {BuiltInTemplates[i].name : i \in 1..Len(BuiltInTemplates)}
        \cup {input.name : input \in GoodCreateTemplateInputs}

KnownDescriptions ==
    {BuiltInTemplates[i].description : i \in 1..Len(BuiltInTemplates)}
        \cup {input.description : input \in GoodCreateTemplateInputs}

KnownContents == {BuiltInStepText} \cup GoodStepContents \cup ContentInputs

\* The service's analyzeContext lower-cases the description and hands it to
\* the recommender's.
analysisOf ==
    [d \in RecommendDescriptionInputs |-> AnalyzeContext(ToLowerCase(d))]

\* identifyCategory's combined scores, as analyzeContext has them computed.
combinedScoresOf ==
    [d \in RecommendDescriptionInputs |-> CombinedScores(ToLowerCase(d))]

keywordScoreOf ==
    [d \in RecommendDescriptionInputs |->
        [i \in 1..Len(Categories) |-> CalculateKeywordScore(ToLowerCase(d), Categories[i])]]

nameScoreOf ==
    [d \in RecommendDescriptionInputs |->
        [name \in KnownNames |-> NameScore(ToLowerCase(d), name)]]

descriptionWordsScoreOf ==
    [d \in RecommendDescriptionInputs |->
        [text \in KnownDescriptions |-> DescriptionWordsScore(ToLowerCase(d), text)]]

stepContentScoreOf ==
    [d \in RecommendDescriptionInputs |->
        [content \in KnownContents |-> StepContentScore(ToLowerCase(d), content)]]

\* identifyContextualFactors: the time-pressure and the high-complexity
\* expressions are alternations without anchors, tested on the lower-cased
\* description.
TimePressure(description) ==
    \E w \in {"urgent", "asap", "quickly", "deadline", "soon"} :
        Includes(description, w)

HighComplexity(description) ==
    \E w \in {"complex", "complicated", "difficult", "challenging", "intricate"} :
        Includes(description, w)

contextualFactorsOf ==
    [d \in RecommendDescriptionInputs |->
        [timePressure |-> TimePressure(ToLowerCase(d)),
         highComplexity |-> HighComplexity(ToLowerCase(d))]]

CategoryIndex(category) == CHOOSE i \in 1..Len(Categories) : Categories[i] = category

\* The score recommendTemplate gives a template: keyword score of its
\* category, template-specific score, usage score.
TemplateScore(description, template, steps) ==
    keywordScoreOf[description][CategoryIndex(template.category)]
    + nameScoreOf[description][template.name]
    + descriptionWordsScoreOf[description][template.description]
    + 10 * Cardinality({i \in 1..Len(steps) :
                            stepContentScoreOf[description][steps[i].content] > 0})
    + CalculateUsageHistoryScore(template)

\* recommendTemplate's answer for an empty candidate list.
NoRecommendation == [templateId |-> NoId, score |-> 0]

\* scores[0] after the sort: the template and its score.
HighestScoring(candidates, scores) ==
    [templateId |-> candidates[FirstMaximum(scores)],
     score |-> scores[FirstMaximum(scores)]]

\* recommendTemplate with useHistory: the candidates are scored and sorted by
\* descending score; the sort is stable, so the first of the best is returned.
RecommendTemplate(description, candidates, catalog, stepLists) ==
    IF Len(candidates) = 0 THEN NoRecommendation
    ELSE HighestScoring(candidates,
            [i \in 1..Len(candidates) |->
                TemplateScore(description, catalog[candidates[i]],
                              stepLists[catalog[candidates[i]].steps])])

---------------------------------------------------------------------------
(* Helpers of createSession and updateStep *)

\* JSON.parse(JSON.stringify(steps)): a fresh array of fresh step objects
\* carrying the serialisable fields of the originals.
DeepCopySteps(steps) ==
    [i \in 1..Len(steps) |-> [id |-> steps[i].id, content |-> steps[i].content,
                              order |-> steps[i].order,
                              isComplete |-> steps[i].isComplete]]

SessionStepsRefShared(h, templateRef) == templateRef

\* The reference the new session's `steps` holds: the array just allocated.
SessionStepsRef(h, templateRef) == Len(h) + 1

NewSessionAtSecondStep(sessionId, templateId, stepsRef, t) ==
    [id |-> sessionId, templateId |-> templateId, currentStepIndex |-> 1,
     steps |-> stepsRef, startTime |-> t, endTime |-> Unset]

\* The session object createSession builds.
NewSession(sessionId, templateId, stepsRef, t) ==
    [id |-> sessionId, templateId |-> templateId, currentStepIndex |-> 0,
     steps |-> stepsRef, startTime |-> t, endTime |-> Unset]

IncrementUsageTwice(usageCount) == usageCount + 2

\* template.usageCount++
IncrementUsage(usageCount) == usageCount + 1

\* steps.findIndex(s => s.id === stepId): 0-based, -1 when absent.
FindIndex(steps, stepId) ==
    IF \E i \in 1..Len(steps) : steps[i].id = stepId
    THEN (CHOOSE i \in 1..Len(steps) :
            /\ steps[i].id = stepId
            /\ \A j \in 1..(i - 1) : steps[j].id # stepId) - 1
    ELSE -1

NextStepIndexPastEnd(currentStepIndex, currentIndex, length) == currentIndex + 1

\* The cursor after updateStep on the step at `currentIndex`.
NextStepIndex(currentStepIndex, currentIndex, length) ==
    IF currentIndex < length - 1 THEN currentIndex + 1 ELSE currentStepIndex

NextEndTimeEveryStep(endTime, currentIndex, length, t) == t

\* session.endTime after updateStep on the step at `currentIndex`.
NextEndTime(endTime, currentIndex, length, t) ==
    IF currentIndex < length - 1 THEN endTime ELSE t

\* Date.prototype.toISOString, as JSON.stringify writes a Date; an instant
\* of the clock is that many milliseconds (fewer than 10) after the epoch.
ToISOString(t) == "1970-01-01T00:00:00.00" \o Decimal(t) \o "Z"

\* A template as JSON.stringify writes it: the steps by value, the dates as
\* ISO strings, no lastUsed key while lastUsed is undefined.
SerializeTemplate(template, stepLists) ==
    LET written == [id |-> template.id, name |-> template.name,
                    category |-> template.category,
                    description |-> template.description,
                    steps |-> stepLists[template.steps],
                    createdAt |-> ToISOString(template.createdAt),
                    usageCount |-> template.usageCount,
                    isBuiltIn |-> template.isBuiltIn]
    IN  IF template.lastUsed = Unset THEN written
        ELSE written @@ ("lastUsed" :> ToISOString(template.lastUsed))

\* The TemplateData saveData hands to PersistenceManager.save, as written to
\* the file: the created templates, the built-ins that have been used, and
\* the three counters.
SaveData(catalog, stepLists, sessionCount, templateCount, stepCount) ==
    [templates |->
        [id \in {t \in DOMAIN catalog :
                    ~catalog[t].isBuiltIn \/ catalog[t].usageCount > 0} |->
            SerializeTemplate(catalog[id], stepLists)],
     sessionCounter |-> sessionCount,
     templateCounter |-> templateCount,
     stepCounter |-> stepCount]

\* The data a PersistenceManager is constructed with.
DefaultTemplateData ==
    [templates |-> <<>>, sessionCounter |-> 0, templateCounter |-> 0,
     stepCounter |-> 0]

DefaultVerificationData == [chains |-> <<>>, chainCounter |-> 0, stepCounter |-> 0]

\* PersistenceManager.initialize: this.data is what the file holds, and the
\* default data when reading the file fails.
ReadDataWithoutFallback(content, default) == content

ReadData(content, default) == IF "read" \in faults THEN default ELSE content

\* PersistenceManager.save(newData), as the content of the file afterwards.
\* While initialize has not completed, save awaits it, and it replaces
\* this.data, which was newData, by what it reads; then this.data is written.
\* A write that fails is logged and leaves the file as it was.
PersistenceSave(isLoaded, newData, content, default) ==
    IF "write" \in faults THEN content
    ELSE IF isLoaded THEN newData
    ELSE ReadData(content, default)

\* The PersistenceManager of the templates: whether its data file exists,
\* its field initialized, the writeFile calls made, the runs of initialize
\* that went past its first test, and whether the promise of the call at
\* hand is rejected.
InitializedPersistence ==
    [exists |-> TRUE, initialized |-> TRUE, writes |-> 0, entered |-> 0,
     rejected |-> FALSE]

\* The manager as constructed on a first run, when no data file exists.
NoDataFile ==
    [exists |-> FALSE, initialized |-> FALSE, writes |-> 0, entered |-> 0,
     rejected |-> FALSE]

\* The nested calls the stack has room for when initialize is called, two at
\* the least: the depth at which a call throws a RangeError is the engine's.
MaxCallDepth == 4

CallDepths == 2..MaxCallDepth

RECURSIVE Initialize(_, _)
RECURSIVE Save(_, _)

\* PersistenceManager.initialize with `room` frames left on the stack. It
\* returns when initialized is set; with a file it reads it; without one it
\* takes the default data and calls save, which needs a frame. An error in
\* the try block, the rejection of save and the RangeError of a call without
\* a frame included, is caught, and initialized is set either way.
Initialize(pm, room) ==
    IF pm.initialized THEN pm
    ELSE IF pm.exists
    THEN [pm EXCEPT !.entered = @ + 1, !.initialized = TRUE]
    ELSE [(IF room = 0 THEN [pm EXCEPT !.entered = @ + 1]
           ELSE Save([pm EXCEPT !.entered = @ + 1], room - 1))
          EXCEPT !.initialized = TRUE, !.rejected = FALSE]

\* PersistenceManager.save() with `room` frames left: while initialized is
\* unset it calls initialize, outside its try block, so that a call without
\* a frame rejects the promise of save; then it writes this.data.
Save(pm, room) ==
    IF ~pm.initialized /\ room = 0 THEN [pm EXCEPT !.rejected = TRUE]
    ELSE [(IF pm.initialized THEN pm ELSE Initialize(pm, room - 1))
          EXCEPT !.writes = @ + 1, !.exists = TRUE]

\* new Date(string) of a string toISOString wrote.
ParseDate(string) == CHOOSE t \in 0..9 : ToISOString(t) = string

\* The step arrays and the catalog a manager is constructed over: the
\* built-in templates, never used.
BuiltInStepLists ==
    [i \in 1..Len(BuiltInTemplates) |-> BuiltInSteps(BuiltInTemplates[i].stepCount)]

BuiltInCatalog ==
    [id \in BuiltInIds |->
        [id |-> id,
         name |-> BuiltInTemplates[BuiltInIndex(id)].name,
         category |-> BuiltInTemplates[BuiltInIndex(id)].category,
         description |-> BuiltInTemplates[BuiltInIndex(id)].description,
         steps |-> BuiltInIndex(id),
         createdAt |-> 1,
         lastUsed |-> Unset,
         usageCount |-> 0,
         isBuiltIn |-> TRUE]]

\* The keys of data.templates in the order Object.entries gives them, which
\* is the order of the catalog when it was saved.
SavedTemplateIds(data) ==
    SelectSeq([i \in 1..Len(BuiltInTemplates) |-> BuiltInTemplates[i].id]
                \o [i \in 1..MaxTemplates |-> GenerateId("template", i)],
              LAMBDA id : id \in DOMAIN data.templates)

\* loadData's template of a saved one: the saved properties, the dates
\* parsed, the steps a new array at stepsRef.
LoadedTemplate(saved, stepsRef) ==
    [id |-> saved.id, name |-> saved.name, category |-> saved.category,
     description |-> saved.description, steps |-> stepsRef,
     createdAt |-> ParseDate(saved.createdAt),
     lastUsed |-> IF "lastUsed" \in DOMAIN saved /\ saved.lastUsed # ""
                  THEN ParseDate(saved.lastUsed) ELSE Unset,
     usageCount |-> saved.usageCount, isBuiltIn |-> saved.isBuiltIn]

\* The catalog loadData builds: the built-in templates with a usage count of
\* 0, then the saved templates, which replace the built-ins of their ids.
LoadedCatalogBuiltInsLast(data, ids, firstRef) ==
    [id \in BuiltInIds \cup DOMAIN data.templates |->
        IF id \in BuiltInIds THEN BuiltInCatalog[id]
        ELSE LoadedTemplate(data.templates[id],
                firstRef + CHOOSE i \in 1..Len(ids) : ids[i] = id)]

LoadedCatalog(data, ids, firstRef) ==
    [id \in BuiltInIds \cup DOMAIN data.templates |->
        IF id \in DOMAIN data.templates
        THEN LoadedTemplate(data.templates[id],
                firstRef + CHOOSE i \in 1..Len(ids) : ids[i] = id)
        ELSE BuiltInCatalog[id]]

\* TemplateManager.loadData over step arrays stepLists: the counters and the
\* catalog are replaced, the sessions are not touched.
LoadData(data, stepLists) ==
    /\ sessionCounter' = data.sessionCounter
    /\ templateCounter' = data.templateCounter
    /\ stepCounter' = data.stepCounter
    /\ heap' = stepLists \o
            [i \in 1..Len(SavedTemplateIds(data)) |->
                data.templates[SavedTemplateIds(data)[i]].steps]
    /\ templates' = LoadedCatalog(data, SavedTemplateIds(data), Len(stepLists))

---------------------------------------------------------------------------
(* Init: the manager after construction and the first load on a machine that
   holds no data file: initialize wrote the default data *)

Init ==
    /\ heap = BuiltInStepLists
    /\ templates = BuiltInCatalog
    /\ sessions = <<>>
    /\ currentSessionId = NoId
    /\ stepCounter = 0
    /\ sessionCounter = 0
    /\ templateCounter = 0
    /\ file = DefaultTemplateData
    /\ recommendationHistory = <<>>
    /\ chains = <<>>
    /\ currentChainId = NoId
    /\ chainStepCounter = 0
    /\ chainCounter = 0
    /\ verificationFile = DefaultVerificationData
    /\ now = 1
    /\ loaded = [template |-> TRUE, verification |-> TRUE]
    /\ faults = {}
    /\ persistence = InitializedPersistence
    /\ response = [op |-> "none", status |-> "ok", isError |-> FALSE]

---------------------------------------------------------------------------
(* Requests *)

\* The reply envelope, reduced to the request answered, whether its text
\* reports a failure, and its isError flag (absent reads as false).
Ok(op, result) == [op |-> op, status |-> "ok", isError |-> FALSE]

\* The catch of processThought and of processToolRequest.
Failed(op, error) == [op |-> op, status |-> "failed", isError |-> TRUE]

\* The catch of handleCommand: the text reports the failure, isError is not set.
FailedCommand(op, error) == [op |-> op, status |-> "failed", isError |-> FALSE]

ThrowAfterCounting(op, error) ==
    /\ sessionCounter < MaxSessions
    /\ response' = Failed(op, error)
    /\ sessionCounter' = sessionCounter + 1
    /\ UNCHANGED <<templates, sessions, heap, currentSessionId, stepCounter,
                   templateCounter, file, recommendationHistory,
                   verificationState, verificationFile, now, loaded, faults, persistence>>

\* `throw new Error(...)` out of a manager call or the validator: the request
\* ends there and the catch around it turns the error into the reply.
Throw(op, error) ==
    /\ response' = Failed(op, error)
    /\ UNCHANGED <<managerState, file, recommendationHistory,
                   verificationState, verificationFile, now, loaded, faults, persistence>>

\* TemplateManager.createSession for a template of the catalog.
ManagerCreateSession(templateId) ==
    LET template == templates[templateId]
        sessionId == GenerateId("session", sessionCounter + 1)
        stepsRef == SessionStepsRef(heap, template.steps)
    IN  /\ sessionCounter < MaxSessions
        /\ templates' = [templates EXCEPT
                ![templateId].usageCount = IncrementUsage(@),
                ![templateId].lastUsed = now]
        /\ sessionCounter' = sessionCounter + 1
        /\ heap' = Append(heap, DeepCopySteps(heap[template.steps]))
        /\ sessions' = (sessionId :> NewSession(sessionId, templateId, stepsRef, now))
                            @@ sessions
        /\ currentSessionId' = sessionId
        /\ file' = PersistenceSave(loaded.template,
                        SaveData(templates', heap', sessionCounter', templateCounter,
                            stepCounter),
                        file, DefaultTemplateData)
        /\ UNCHANGED <<stepCounter, templateCounter, loaded, faults, persistence>>

\* A {templateId} request: processThought calls TemplateManager.createSession.
CreateSession(templateId) ==
    IF templateId \notin DOMAIN templates
    THEN Throw("createSession", "Template not found")
    ELSE /\ ManagerCreateSession(templateId)
         /\ response' = Ok("createSession", currentSessionId')
         /\ UNCHANGED <<recommendationHistory,
                   verificationState, verificationFile, now, loaded, faults, persistence>>

\* TemplateManager.updateStep, called by processThought for
\* {sessionId, stepId, content}.
UpdateStep(sessionId, stepId, content) ==
    IF sessionId \notin DOMAIN sessions
    THEN Throw("updateStep", "Session not found")
    ELSE LET session == sessions[sessionId]
             steps == heap[session.steps]
             currentIndex == FindIndex(steps, stepId)
         IN  IF currentIndex = -1
             THEN Throw("updateStep", "Step not found in session")
             ELSE /\ heap' = [heap EXCEPT
                        ![session.steps][currentIndex + 1].content = content,
                        ![session.steps][currentIndex + 1].isComplete = TRUE]
                  /\ sessions' = [sessions EXCEPT
                        ![sessionId].currentStepIndex =
                            NextStepIndex(@, currentIndex, Len(steps)),
                        ![sessionId].endTime =
                            NextEndTime(@, currentIndex, Len(steps), now)]
                  /\ file' = PersistenceSave(loaded.template,
                        SaveData(templates, heap', sessionCounter,
                                      templateCounter, stepCounter),
                        file, DefaultTemplateData)
                  /\ response' = Ok("updateStep", stepId)
                  /\ UNCHANGED <<templates, currentSessionId, stepCounter,
                                 sessionCounter, templateCounter,
                                 recommendationHistory,
                   verificationState, verificationFile, now, loaded, faults, persistence>>

\* validateTemplateThinkingInput, the createTemplate branch: the message of
\* the error thrown, or "" when the input is accepted. A JavaScript string is
\* falsy exactly when it is empty.
ValidateCreateTemplateAnyOrder(input) ==
    IF input.name = "" \/ input.category = "" \/ input.description = ""
        \/ Len(input.steps) = 0
        \/ \E i \in 1..Len(input.steps) : input.steps[i].content = ""
    THEN "rejected" ELSE ""

ValidateCreateTemplate(input) ==
    IF input.name = "" THEN "Template name is required and must be a string"
    ELSE IF input.category = "" THEN "Template category is required and must be a string"
    ELSE IF input.description = "" THEN "Template description is required and must be a string"
    ELSE IF Len(input.steps) = 0 THEN "Template steps are required and must be a non-empty array"
    ELSE IF \E i \in 1..Len(input.steps) :
                /\ \A j \in 1..(i - 1) :
                        input.steps[j].content # "" /\ ~(input.steps[j].order < 1)
                /\ input.steps[i].content = ""
         THEN "Each step must have a content property that is a string"
    ELSE IF \E i \in 1..Len(input.steps) : input.steps[i].order < 1
         THEN "Each step must have an order property that is a number greater than 0"
    ELSE ""

\* The steps createTemplate builds: one generateId('step') per input step.
TemplateSteps(inputSteps, counter) ==
    [i \in 1..Len(inputSteps) |->
        [id |-> GenerateId("step", counter + i), content |-> inputSteps[i].content,
         order |-> inputSteps[i].order, isComplete |-> FALSE]]

\* A createTemplate request: processToolRequest validates the input, then
\* processThought calls TemplateManager.createTemplate.
CreateTemplate(input) ==
    IF ValidateCreateTemplate(input) # ""
    THEN Throw("createTemplate", ValidateCreateTemplate(input))
    ELSE LET templateId == GenerateId("template", templateCounter + 1)
         IN  /\ templateCounter < MaxTemplates
             /\ templateCounter' = templateCounter + 1
             /\ stepCounter' = stepCounter + Len(input.steps)
             /\ heap' = Append(heap, TemplateSteps(input.steps, stepCounter))
             /\ templates' = (templateId :>
                    [id |-> templateId, name |-> input.name,
                     category |-> input.category, description |-> input.description,
                     steps |-> Len(heap) + 1, createdAt |-> now, lastUsed |-> Unset,
                     usageCount |-> 0, isBuiltIn |-> FALSE]) @@ templates
             /\ file' = PersistenceSave(loaded.template,
                        SaveData(templates', heap', sessionCounter,
                                 templateCounter', stepCounter'),
                        file, DefaultTemplateData)
             /\ response' = Ok("createTemplate", templateId)
             /\ UNCHANGED <<sessions, currentSessionId, sessionCounter,
                            recommendationHistory,
                   verificationState, verificationFile, now, loaded, faults, persistence>>

\* The catch of handleCommand around a command that threw.
ThrowInCommand(op, error) ==
    /\ response' = FailedCommand(op, error)
    /\ UNCHANGED <<managerState, file, recommendationHistory,
                   verificationState, verificationFile, now, loaded, faults, persistence>>

\* getAllTemplates: the ids of the catalog in the Map's insertion order, the
\* built-ins first and the created templates in the order of their ids.
GetAllTemplates ==
    [i \in 1..Len(BuiltInTemplates) |-> BuiltInTemplates[i].id]
        \o [i \in 1..templateCounter |-> GenerateId("template", i)]

CandidateTemplatesUnfiltered(analysis, availableTemplates) == availableTemplates

\* autoSelectTemplate's candidates: the templates of the identified category
\* when the confidence is above 0.6 and there is one, all templates otherwise.
CandidateTemplates(analysis, availableTemplates) ==
    LET categoryTemplates == SelectSeq(availableTemplates,
            LAMBDA t : templates[t].category = analysis.category)
    IN  IF analysis.aboveThreshold /\ Len(categoryTemplates) > 0
        THEN categoryTemplates ELSE availableTemplates

\* autoSelectTemplate up to its history entry.
AutoSelectRecommendation(problemDescription, availableTemplates) ==
    RecommendTemplate(problemDescription,
                      CandidateTemplates(analysisOf[problemDescription],
                                         availableTemplates),
                      templates, heap)

\* An entry of recommendationHistory.
HistoryEntry(context, templateId, score, t, wasAccepted) ==
    [context |-> context, templateId |-> templateId, score |-> score,
     timestamp |-> t, wasAccepted |-> wasAccepted]

\* recordRecommendationOutcome on `history`: the most recent entry for the
\* template gets the outcome; without one, an entry is appended.
RecordRecommendationOutcome(history, templateId, problemDescription, wasAccepted, t) ==
    IF \E i \in 1..Len(history) : history[i].templateId = templateId
    THEN LET recent == CHOOSE i \in 1..Len(history) :
                        /\ history[i].templateId = templateId
                        /\ \A j \in (i + 1)..Len(history) :
                                history[j].templateId # templateId
         IN  [history EXCEPT ![recent].wasAccepted = wasAccepted]
    ELSE Append(history,
                HistoryEntry(problemDescription, templateId, 0, t, wasAccepted))

\* The command auto-select-template once autoSelectTemplate has answered:
\* without a recommendation it only answers; with one, the recommendation is
\* in the history, a session of the template is created and the
\* recommendation is recorded as accepted.
CreateSelectedSession(problemDescription, recommendation) ==
    IF recommendation = NoRecommendation
    THEN /\ response' = Ok("auto-select-template", NoId)
         /\ UNCHANGED <<managerState, file, recommendationHistory,
                   verificationState, verificationFile, now, loaded, faults, persistence>>
    ELSE /\ Len(recommendationHistory) < MaxHistory
         /\ ManagerCreateSession(recommendation.templateId)
         /\ recommendationHistory' =
                RecordRecommendationOutcome(
                    Append(recommendationHistory,
                           HistoryEntry(problemDescription,
                                        recommendation.templateId,
                                        recommendation.score, now, FALSE)),
                    recommendation.templateId, problemDescription, TRUE, now)
         /\ response' = Ok("auto-select-template", currentSessionId')
         /\ UNCHANGED <<verificationState, verificationFile, now, loaded, faults, persistence>>

\* The command auto-select-template.
AutoSelectTemplate(problemDescription) ==
    IF problemDescription = ""
    THEN ThrowInCommand("auto-select-template", "problemDescription required")
    ELSE CreateSelectedSession(problemDescription,
            AutoSelectRecommendation(problemDescription, GetAllTemplates))

\* getTemplateRecommendations, the adjustment of a template's score for the
\* contextual factors: under time pressure 1.5 for at most five steps and -1
\* for seven or more; under high complexity 1.2 for six steps or more.
FactorAdjustment(factors, stepCount) ==
    (IF factors.timePressure
     THEN (IF stepCount <= 5 THEN 15 ELSE IF stepCount >= 7 THEN -10 ELSE 0)
     ELSE 0)
    + (IF factors.highComplexity /\ stepCount >= 6 THEN 12 ELSE 0)

\* getTemplateRecommendations, the score of one template: 5 for the category
\* of the analysis, the adjustment, and recommendTemplate's score of the
\* template alone.
DetailedScore(problemDescription, templateId) ==
    (IF templates[templateId].category = analysisOf[problemDescription].category
     THEN 50 ELSE 0)
    + FactorAdjustment(contextualFactorsOf[problemDescription],
                       Len(heap[templates[templateId].steps]))
    + RecommendTemplate(problemDescription, <<templateId>>, templates, heap).score

\* detailedScores.sort((a, b) => b.score - a.score): the place of entry i,
\* the sort being stable.
SortedPlace(scores, i) ==
    1 + Cardinality({j \in 1..Len(scores) :
            scores[j] > scores[i] \/ (scores[j] = scores[i] /\ j < i)})

\* The entry of detailedScores for template i of availableTemplates.
DetailedEntry(availableTemplates, scores, i) ==
    [templateId |-> availableTemplates[i], score |-> scores[i]]

\* The sorted detailedScores from place k on: template ids with their scores.
RECURSIVE SortDetailedScores(_, _, _)
SortDetailedScores(availableTemplates, scores, k) ==
    IF k > Len(scores) THEN << >>
    ELSE <<DetailedEntry(availableTemplates, scores,
                CHOOSE j \in 1..Len(scores) : SortedPlace(scores, j) = k)>>
         \o SortDetailedScores(availableTemplates, scores, k + 1)

\* availableTemplates.map(template => ...): the scores of the templates from
\* index i on.
RECURSIVE DetailedScores(_, _, _)
DetailedScores(problemDescription, availableTemplates, i) ==
    IF i > Len(availableTemplates) THEN << >>
    ELSE <<DetailedScore(problemDescription, availableTemplates[i])>>
         \o DetailedScores(problemDescription, availableTemplates, i + 1)

\* remaining.find(r => !usedCategories.has(r.template.category)): its index,
\* 0 when there is none.
FindUnusedCategory(diverse, remaining) ==
    LET unused == {k \in 1..Len(remaining) :
                    \A m \in 1..Len(diverse) :
                        templates[diverse[m].templateId].category
                            # templates[remaining[k].templateId].category}
    IN  IF unused = {} THEN 0 ELSE CHOOSE k \in unused : \A m \in unused : k <= m

\* The entries of a sequence without the one at index k.
Without(entries, k) ==
    SubSeq(entries, 1, k - 1) \o SubSeq(entries, k + 1, Len(entries))

\* The while loop of getTemplateRecommendations: while the result is shorter
\* than limit and entries remain, the first remaining entry of a category
\* not yet in the result is taken, the first remaining entry when there is
\* none.
\* (A sequence bound by `\in {...}` is computed once, where an argument
\* would be computed at each of its uses.)
RECURSIVE Diversify(_, _, _)
Diversify(diverse, remaining, limit) ==
    IF ~(Len(diverse) < limit /\ Len(remaining) > 0) THEN diverse
    ELSE CHOOSE recommendations \in
            {Diversify(nextDiverse, nextRemaining, limit) :
                nextDiverse \in
                    {IF FindUnusedCategory(diverse, remaining) # 0
                     THEN Append(diverse,
                                 remaining[FindUnusedCategory(diverse, remaining)])
                     ELSE Append(diverse, remaining[1])},
                nextRemaining \in
                    {IF FindUnusedCategory(diverse, remaining) # 0
                     THEN Without(remaining, FindUnusedCategory(diverse, remaining))
                     ELSE Tail(remaining)}} : TRUE

\* The recommendations once detailedScores is sorted: its first entry is
\* taken whatever the limit.
DiverseRecommendations(detailedScores, limit) ==
    IF Len(detailedScores) = 0 THEN << >>
    ELSE Diversify(<<detailedScores[1]>>, Tail(detailedScores), limit)

\* TemplateRecommenderService.getTemplateRecommendations: the recommendations.
GetTemplateRecommendations(problemDescription, availableTemplates, limit) ==
    CHOOSE recommendations \in
        {DiverseRecommendations(detailedScores, limit) :
            detailedScores \in
                {SortDetailedScores(availableTemplates, scores, 1) :
                    scores \in {DetailedScores(problemDescription,
                                               availableTemplates, 1)}}} : TRUE

\* command.limit || 3: an absent limit and the limit 0 give 3.
LimitOrDefault(limit) ==
    IF limit = Undefined \/ limit = Given(0) THEN 3
    ELSE CHOOSE n \in limit : TRUE

\* The answer of recommend-template: its text quotes the request, reports
\* the category and the confidence of the analysis and lists the
\* recommendations.
Recommended(problemDescription, analysis, limit, recommendations) ==
    [op |-> "recommend-template", status |-> "ok", isError |-> FALSE,
     request |-> problemDescription, category |-> analysis.category,
     confidence |-> analysis.confidence, limit |-> limit,
     recommendations |-> recommendations]

\* The command recommend-template: it reads the catalog and answers.
RecommendTemplateCommand(problemDescription, limit) ==
    IF problemDescription = ""
    THEN ThrowInCommand("recommend-template", "problemDescription required")
    ELSE /\ response' = Recommended(problemDescription,
                            analysisOf[problemDescription], LimitOrDefault(limit),
                            GetTemplateRecommendations(problemDescription,
                                GetAllTemplates, LimitOrDefault(limit)))
         /\ UNCHANGED <<managerState, file, recommendationHistory,
                   verificationState, verificationFile, now, loaded, faults, persistence>>

\* The command record-template-selection.
RecordTemplateSelection(templateId, problemDescription, wasAccepted) ==
    IF templateId = "" \/ problemDescription = ""
    THEN ThrowInCommand("record-template-selection",
                        "templateId and problemDescription required")
    ELSE IF templateId \notin DOMAIN templates
    THEN ThrowInCommand("record-template-selection", "Template not found")
    ELSE /\ \/ Len(recommendationHistory) < MaxHistory
            \/ \E i \in 1..Len(recommendationHistory) :
                    recommendationHistory[i].templateId = templateId
         /\ recommendationHistory' =
                RecordRecommendationOutcome(recommendationHistory, templateId,
                                            problemDescription, wasAccepted, now)
         /\ response' = Ok("record-template-selection", templateId)
         /\ UNCHANGED <<managerState, file, verificationState, verificationFile, now, loaded, faults, persistence>>

\* The clock advances between requests.
Tick ==
    /\ now < MaxTime
    /\ now' = now + 1
    /\ UNCHANGED <<managerState, file, recommendationHistory, verificationState,
                   verificationFile, response, loaded, faults, persistence>>

---------------------------------------------------------------------------
(* VerificationManager. A confidence is kept in tenths. *)

VerificationStatuses == {"pending", "in_progress", "verified", "failed", "skipped"}

\* A parameter with a default value: `status = 'pending'`, `confidence = 0.5`.
DefaultTo(argument, default) ==
    IF argument = Undefined THEN default ELSE CHOOSE v \in argument : TRUE

ChainEndTimeOverwritten(endTime, t) == t

\* if (!chain.endTime) chain.endTime = new Date()
ChainEndTime(endTime, t) == IF endTime = Unset THEN t ELSE endTime

UpdateChainStatusFailedFirst(chain, t) ==
    LET statuses == {chain.steps[i].status : i \in 1..Len(chain.steps)}
    IN  IF statuses = {} THEN [chain EXCEPT !.overallStatus = "pending"]
        ELSE IF "failed" \in statuses THEN [chain EXCEPT !.overallStatus = "failed"]
        ELSE IF "pending" \in statuses THEN [chain EXCEPT !.overallStatus = "in_progress"]
        ELSE IF statuses = {"verified"}
        THEN [chain EXCEPT !.overallStatus = "verified",
                           !.endTime = ChainEndTime(@, t)]
        ELSE [chain EXCEPT !.overallStatus = "in_progress"]

UpdateChainStatusLastStep(chain, t) ==
    IF Len(chain.steps) = 0 THEN [chain EXCEPT !.overallStatus = "pending"]
    ELSE IF chain.steps[Len(chain.steps)].status = "pending"
    THEN [chain EXCEPT !.overallStatus = "in_progress"]
    ELSE IF chain.steps[Len(chain.steps)].status = "failed"
    THEN [chain EXCEPT !.overallStatus = "failed"]
    ELSE IF chain.steps[Len(chain.steps)].status = "verified"
    THEN [chain EXCEPT !.overallStatus = "verified",
                       !.endTime = ChainEndTime(@, t)]
    ELSE [chain EXCEPT !.overallStatus = "in_progress"]

\* updateChainStatus, on the chain record: the chain with its overallStatus
\* derived from its steps, and its endTime stamped when that is 'verified'.
UpdateChainStatus(chain, t) ==
    IF Len(chain.steps) = 0
    THEN [chain EXCEPT !.overallStatus = "pending"]
    ELSE IF \E i \in 1..Len(chain.steps) : chain.steps[i].status = "pending"
    THEN [chain EXCEPT !.overallStatus = "in_progress"]
    ELSE IF \E i \in 1..Len(chain.steps) : chain.steps[i].status = "failed"
    THEN [chain EXCEPT !.overallStatus = "failed"]
    ELSE IF \A i \in 1..Len(chain.steps) : chain.steps[i].status = "verified"
    THEN [chain EXCEPT !.overallStatus = "verified",
                       !.endTime = ChainEndTime(@, t)]
    ELSE [chain EXCEPT !.overallStatus = "in_progress"]

NewChainInProgress(chainId, subject, t) ==
    [id |-> chainId, subject |-> subject, steps |-> <<>>,
     overallStatus |-> "in_progress", startTime |-> t, endTime |-> Unset]

\* The chain object createChain builds.
NewChain(chainId, subject, t) ==
    [id |-> chainId, subject |-> subject, steps |-> <<>>,
     overallStatus |-> "pending", startTime |-> t, endTime |-> Unset]

\* The step object addVerificationStep builds.
NewVerificationStep(stepId, type, claim, verification, status, confidence, evidence, counterExample) ==
    [id |-> stepId, type |-> type, claim |-> claim, verification |-> verification,
     status |-> DefaultTo(status, "pending"),
     confidence |-> DefaultTo(confidence, 5),
     evidence |-> evidence, counterExample |-> counterExample]

AssignAlways(stored, argument) == argument

\* if (evidence !== undefined) step.evidence = evidence
AssignIfDefined(stored, argument) ==
    IF argument # Undefined THEN argument ELSE stored

\* chain.steps.find(s => s.id === stepId): the 1-based position of the first
\* step with the id, 0 when there is none.
FindStep(steps, stepId) ==
    IF \E i \in 1..Len(steps) : steps[i].id = stepId
    THEN CHOOSE i \in 1..Len(steps) :
            /\ steps[i].id = stepId
            /\ \A j \in 1..(i - 1) : steps[j].id # stepId
    ELSE 0

\* A verification step as JSON.stringify writes it: no key for an undefined
\* evidence or counterExample.
SerializeVerificationStep(step) ==
    [k \in {"id", "type", "claim", "verification", "status", "confidence"}
            \cup (IF step.evidence = Undefined THEN {} ELSE {"evidence"})
            \cup (IF step.counterExample = Undefined THEN {} ELSE {"counterExample"}) |->
        IF k = "id" THEN Given(step.id)
        ELSE IF k = "type" THEN Given(step.type)
        ELSE IF k = "claim" THEN Given(step.claim)
        ELSE IF k = "verification" THEN Given(step.verification)
        ELSE IF k = "status" THEN Given(step.status)
        ELSE IF k = "confidence" THEN Given(step.confidence)
        ELSE IF k = "evidence" THEN step.evidence
        ELSE step.counterExample]

\* A chain as JSON.stringify writes it: the dates as ISO strings, no endTime
\* key while endTime is undefined.
SerializeChain(chain) ==
    LET written == [id |-> chain.id, subject |-> chain.subject,
                    steps |-> [i \in 1..Len(chain.steps) |->
                                SerializeVerificationStep(chain.steps[i])],
                    overallStatus |-> chain.overallStatus,
                    startTime |-> ToISOString(chain.startTime)]
    IN  IF chain.endTime = Unset THEN written
        ELSE written @@ ("endTime" :> ToISOString(chain.endTime))

\* The VerificationData saveData hands to PersistenceManager.save, as written
\* to the file.
SaveVerificationData(allChains, chainCount, stepCount) ==
    [chains |-> [id \in DOMAIN allChains |-> SerializeChain(allChains[id])],
     chainCounter |-> chainCount,
     stepCounter |-> stepCount]

ThrowAfterCountingStep(op, error) ==
    /\ response' = Failed(op, error)
    /\ chainStepCounter' = chainStepCounter + 1
    /\ UNCHANGED <<managerState, file, recommendationHistory, chains,
                   currentChainId, chainCounter, verificationFile, now, loaded, faults, persistence>>

\* An Error thrown by VerificationManager before any assignment; the caller
\* answers with the error.
ThrowInVerification(op, error) ==
    /\ response' = Failed(op, error)
    /\ UNCHANGED <<managerState, file, recommendationHistory, verificationState,
                   verificationFile, now, loaded, faults, persistence>>

\* VerificationManager.createChain.
CreateChain(subject) ==
    LET chainId == GenerateId("chain", chainCounter + 1)
    IN  /\ chainCounter < MaxChains
        /\ chainCounter' = chainCounter + 1
        /\ chains' = (chainId :> NewChain(chainId, subject, now)) @@ chains
        /\ currentChainId' = chainId
        /\ verificationFile' = PersistenceSave(loaded.verification,
                        SaveVerificationData(chains', chainCounter',
                                                    chainStepCounter),
                        verificationFile, DefaultVerificationData)
        /\ response' = Ok("createChain", chainId)
        /\ UNCHANGED <<managerState, file, recommendationHistory,
                       chainStepCounter, now, loaded, faults, persistence>>

\* VerificationManager.addVerificationStep.
AddVerificationStep(chainId, type, claim, verification, status, confidence, evidence, counterExample) ==
    IF chainId \notin DOMAIN chains
    THEN ThrowInVerification("addVerificationStep", "Chain not found")
    ELSE LET step == NewVerificationStep(GenerateId("step", chainStepCounter + 1),
                        type, claim, verification, status, confidence,
                        evidence, counterExample)
         IN  /\ chainStepCounter < MaxChainSteps
             /\ chainStepCounter' = chainStepCounter + 1
             /\ chains' = [chains EXCEPT ![chainId] =
                    UpdateChainStatus([@ EXCEPT !.steps = Append(@, step)], now)]
             /\ verificationFile' = PersistenceSave(loaded.verification,
                        SaveVerificationData(chains', chainCounter,
                                                         chainStepCounter'),
                        verificationFile, DefaultVerificationData)
             /\ response' = Ok("addVerificationStep", step.id)
             /\ UNCHANGED <<managerState, file, recommendationHistory,
                            currentChainId, chainCounter, now, loaded, faults, persistence>>

\* VerificationManager.updateVerificationStep.
UpdateVerificationStep(chainId, stepId, verification, status, confidence, evidence, counterExample) ==
    IF chainId \notin DOMAIN chains
    THEN ThrowInVerification("updateVerificationStep", "Chain not found")
    ELSE IF FindStep(chains[chainId].steps, stepId) = 0
    THEN ThrowInVerification("updateVerificationStep", "Step not found in chain")
    ELSE /\ chains' = [chains EXCEPT ![chainId] =
                UpdateChainStatus(
                    [@ EXCEPT !.steps[FindStep(@.steps, stepId)] =
                        [@ EXCEPT !.verification = verification,
                                  !.status = status,
                                  !.confidence = confidence,
                                  !.evidence = AssignIfDefined(@, evidence),
                                  !.counterExample =
                                        AssignIfDefined(@, counterExample)]],
                    now)]
         /\ verificationFile' = PersistenceSave(loaded.verification,
                        SaveVerificationData(chains', chainCounter,
                                                     chainStepCounter),
                        verificationFile, DefaultVerificationData)
         /\ response' = Ok("updateVerificationStep", stepId)
         /\ UNCHANGED <<managerState, file, recommendationHistory,
                        currentChainId, chainStepCounter, chainCounter, now, loaded, faults, persistence>>

\* Chain ids of requests: the ids createChain gives and one it never gives.
ChainIdInputs == {GenerateId("chain", i) : i \in 1..MaxChains} \cup {"chain-404"}

\* Step ids of requests: the ids addVerificationStep gives and one it never
\* gives.
ChainStepIdInputs ==
    {GenerateId("step", i) : i \in 1..MaxChainSteps} \cup {"step-404"}

\* The status, confidence, evidence and counterExample of addVerificationStep
\* calls: all four left out, and a verified step with a confidence of 1.5.
AddStepArguments ==
    { [status |-> Undefined, confidence |-> Undefined,
       evidence |-> Undefined, counterExample |-> Undefined],
      [status |-> Given("verified"), confidence |-> Given(15),
       evidence |-> Given("e"), counterExample |-> Given("x")] }

\* The arguments of updateVerificationStep calls: every status with evidence
\* and counterExample left out, and two with both passed as the empty string.
UpdateStepArguments ==
    [status : VerificationStatuses, confidence : {8},
     evidence : {Undefined}, counterExample : {Undefined}]
    \cup [status : {"verified", "failed"}, confidence : {8},
          evidence : {Given("")}, counterExample : {Given("")}]

---------------------------------------------------------------------------
(* Requests through processToolRequest *)

\* The input of a request: an object whose properties are each given or
\* absent, or null (isObject is FALSE).
EmptyCommand ==
    [type |-> Undefined, templateId |-> Undefined, sessionId |-> Undefined,
     chainId |-> Undefined, problemDescription |-> Undefined]

EmptyInput ==
    [isObject |-> TRUE, command |-> Undefined, createTemplate |-> Undefined,
     templateId |-> Undefined, sessionId |-> Undefined, stepId |-> Undefined,
     content |-> Undefined, subject |-> Undefined, chainId |-> Undefined,
     claim |-> Undefined, type |-> Undefined, verification |-> Undefined,
     status |-> Undefined, evidence |-> Undefined, counterExample |-> Undefined]

NullInput == [EmptyInput EXCEPT !.isObject = FALSE]

\* The value of a property that is given.
The(property) == CHOOSE v \in property : TRUE

\* The test `if (x)` on a string property: absent and "" are falsy.
Truthy(property) == \E v \in property : v # ""

\* The tool names of requests: the two validateInput knows, the registered
\* tool it does not know, a name of no tool, and the empty name.
ToolNameInputs ==
    {"template-thinking", "verification-thinking", "branch-thinking",
     "no-such-tool", ""}

\* ToolRegistry, the names its constructor registers tools under.
RegisteredTools == {"branch-thinking", "template-thinking", "verification-thinking"}

\* `data.command && types.includes(data.command.type)`.
CommandTypeIn(input, types) ==
    /\ input.command # Undefined
    /\ The(input.command).type # Undefined
    /\ The(The(input.command).type) \in types

\* The two patterns validateInput and getToolForInput share.
TemplatePattern(input) ==
    \/ Truthy(input.templateId)
    \/ input.createTemplate # Undefined
    \/ CommandTypeIn(input, {"list-templates", "show-template", "continue-session"})

VerificationPattern(input) ==
    \/ Truthy(input.subject)
    \/ Truthy(input.chainId) /\ (Truthy(input.claim) \/ Truthy(input.stepId))
    \/ CommandTypeIn(input, {"list-chains", "show-chain"})

\* ToolRegistry.getToolForInput: the name of the tool inferred from the
\* input. The requests carry no property `tool`.
GetToolForInput(input) ==
    IF \/ Truthy(input.content) /\ Truthy(input.type)
       \/ CommandTypeIn(input, {"list", "focus", "history", "minimize", "expand"})
    THEN "branch-thinking"
    ELSE IF TemplatePattern(input) THEN "template-thinking"
    ELSE IF VerificationPattern(input) THEN "verification-thinking"
    ELSE "branch-thinking"

\* validateTemplateThinkingInput: the message of the error thrown, or ""
\* when the input is returned. Reading a property of null is a TypeError.
ValidateTemplateThinkingInput(input) ==
    IF ~input.isObject THEN "Cannot read properties of null"
    ELSE IF input.command # Undefined
    THEN LET command == The(input.command)
         IN  IF ~Truthy(command.type)
             THEN "Command type is required and must be a string"
             ELSE IF The(command.type) \notin
                        {"list-templates", "show-template", "continue-session"}
             THEN "Invalid command type"
             ELSE IF The(command.type) = "show-template" /\ ~Truthy(command.templateId)
             THEN "Command show-template requires a templateId"
             ELSE IF The(command.type) = "continue-session" /\ ~Truthy(command.sessionId)
             THEN "Command continue-session requires a sessionId"
             ELSE ""
    ELSE IF input.createTemplate # Undefined
    THEN ValidateCreateTemplate(The(input.createTemplate))
    ELSE IF Truthy(input.templateId) /\ ~Truthy(input.sessionId) THEN ""
    ELSE IF Truthy(input.sessionId) /\ Truthy(input.stepId) /\ Truthy(input.content)
    THEN ""
    ELSE "Invalid template thinking input: missing required parameters"

\* validateVerificationThinkingInput, likewise.
ValidateVerificationThinkingInput(input) ==
    IF ~input.isObject THEN "Cannot read properties of null"
    ELSE IF input.command # Undefined
    THEN LET command == The(input.command)
         IN  IF ~Truthy(command.type)
             THEN "Command type is required and must be a string"
             ELSE IF The(command.type) \notin {"list-chains", "show-chain"}
             THEN "Invalid command type"
             ELSE IF The(command.type) = "show-chain" /\ ~Truthy(command.chainId)
             THEN "Command show-chain requires a chainId"
             ELSE ""
    ELSE IF Truthy(input.subject) /\ ~Truthy(input.chainId) THEN ""
    ELSE IF Truthy(input.chainId) /\ Truthy(input.claim) /\ Truthy(input.type)
    THEN ""
    ELSE IF Truthy(input.chainId) /\ Truthy(input.stepId) /\ Truthy(input.verification)
    THEN ""
    ELSE "Invalid verification thinking input: missing required parameters"

\* validateInput: the validator of the tool name, and for a falsy name the
\* validator inferred from the input.
ValidateInputAcceptingCommands(input, toolName) ==
    IF input.isObject /\ input.command # Undefined
        /\ Truthy(The(input.command).type)
    THEN ""
    ELSE IF toolName = "template-thinking" THEN ValidateTemplateThinkingInput(input)
    ELSE IF toolName = "verification-thinking"
    THEN ValidateVerificationThinkingInput(input)
    ELSE "Unknown tool"

ValidateInput(input, toolName) ==
    IF toolName = "template-thinking" THEN ValidateTemplateThinkingInput(input)
    ELSE IF toolName = "verification-thinking"
    THEN ValidateVerificationThinkingInput(input)
    ELSE IF toolName # "" THEN "Unknown tool"
    ELSE IF ~input.isObject THEN "Cannot read properties of null"
    ELSE IF TemplatePattern(input) THEN ValidateTemplateThinkingInput(input)
    ELSE IF VerificationPattern(input) THEN ValidateVerificationThinkingInput(input)
    ELSE "Could not determine input type"

\* A request that only reads: the reply and nothing else.
Reply(envelope) ==
    /\ response' = envelope
    /\ UNCHANGED <<managerState, file, recommendationHistory,
                   verificationState, verificationFile, now, loaded, faults, persistence>>

\* A string property read where a string is used: "" when it is falsy.
StringOf(property) == IF Truthy(property) THEN The(property) ELSE ""

\* TemplateThinkingTool.handleCommand: the eight cases of the switch and its
\* default. The requests carry neither limit nor wasAccepted, so the
\* defaults of both apply.
HandleCommand(command) ==
    LET type == The(command.type)
    IN  IF type = "list-templates" THEN Reply(Ok(type, GetAllTemplates))
        ELSE IF type = "show-template"
        THEN IF ~Truthy(command.templateId)
             THEN ThrowInCommand(type, "templateId required for show-template command")
             ELSE IF The(command.templateId) \notin DOMAIN templates
             THEN ThrowInCommand(type, "Template not found")
             ELSE Reply(Ok(type, The(command.templateId)))
        ELSE IF type = "continue-session"
        THEN IF ~Truthy(command.sessionId)
             THEN ThrowInCommand(type, "sessionId required for continue-session command")
             ELSE IF The(command.sessionId) \notin DOMAIN sessions
             THEN ThrowInCommand(type, "Session not found")
             ELSE Reply(Ok(type, The(command.sessionId)))
        ELSE IF type = "get-artifact-template"
        THEN IF ~Truthy(command.templateId)
             THEN ThrowInCommand(type,
                    "templateId required for get-artifact-template command")
             ELSE IF The(command.templateId) \notin DOMAIN templates
             THEN ThrowInCommand(type, "Template not found")
             ELSE Reply(Ok(type, The(command.templateId)))
        ELSE IF type = "recommend-template"
        THEN RecommendTemplateCommand(StringOf(command.problemDescription), Undefined)
        ELSE IF type = "auto-select-template"
        THEN AutoSelectTemplate(StringOf(command.problemDescription))
        ELSE IF type = "record-template-selection"
        THEN RecordTemplateSelection(StringOf(command.templateId),
                                     StringOf(command.problemDescription), TRUE)
        ELSE IF type = "template-effectiveness"
        THEN Reply(Ok(type, Len(recommendationHistory)))
        ELSE ThrowInCommand(type, "Unknown command")

\* TemplateThinkingTool.processThought.
TemplateProcessThought(input) ==
    IF input.command # Undefined THEN HandleCommand(The(input.command))
    ELSE IF input.createTemplate # Undefined
    THEN CreateTemplate(The(input.createTemplate))
    ELSE IF Truthy(input.templateId) /\ ~Truthy(input.sessionId)
    THEN CreateSession(The(input.templateId))
    ELSE IF Truthy(input.sessionId) /\ Truthy(input.stepId) /\ Truthy(input.content)
    THEN UpdateStep(The(input.sessionId), The(input.stepId), The(input.content))
    ELSE Throw("processThought",
               "Invalid template thinking input: missing required parameters")

\* VerificationThinkingTool.handleCommand.
HandleVerificationCommand(command) ==
    LET type == The(command.type)
    IN  IF type = "list-chains" THEN Reply(Ok(type, DOMAIN chains))
        ELSE IF type = "show-chain"
        THEN IF ~Truthy(command.chainId)
             THEN ThrowInCommand(type, "chainId required for show-chain command")
             ELSE IF The(command.chainId) \notin DOMAIN chains
             THEN ThrowInCommand(type, "Chain not found")
             ELSE Reply(Ok(type, The(command.chainId)))
        ELSE ThrowInCommand(type, "Unknown command")

\* VerificationThinkingTool.processThought.
VerificationProcessThought(input) ==
    IF input.command # Undefined THEN HandleVerificationCommand(The(input.command))
    ELSE IF Truthy(input.subject) /\ ~Truthy(input.chainId)
    THEN CreateChain(The(input.subject))
    ELSE IF Truthy(input.chainId) /\ Truthy(input.claim) /\ Truthy(input.type)
    THEN AddVerificationStep(The(input.chainId), The(input.type), The(input.claim),
            IF Truthy(input.verification) THEN The(input.verification)
            ELSE "Pending verification...",
            Given("pending"), Given(5), input.evidence, input.counterExample)
    ELSE IF Truthy(input.chainId) /\ Truthy(input.stepId) /\ Truthy(input.verification)
    THEN UpdateVerificationStep(The(input.chainId), The(input.stepId),
            The(input.verification),
            IF Truthy(input.status) THEN The(input.status) ELSE "in_progress",
            IF Truthy(input.evidence) THEN 8 ELSE 5,
            input.evidence, input.counterExample)
    ELSE ThrowInVerification("processThought",
            "Invalid verification thinking input: missing required parameters")

\* BranchThinkingTool.processThought, whose code is not in the repository's
\* sources: it answers, one way or the other.
BranchProcessThought(input) ==
    \/ Reply(Ok("branch-thinking", NoId))
    \/ Reply(Failed("branch-thinking", "branch-thinking failed"))

\* The tool processToolRequest hands a valid request to: the one registered
\* under the name, and without one the tool inferred from the input.
ToolOfRequest(toolName, input) ==
    IF toolName \in RegisteredTools THEN toolName ELSE GetToolForInput(input)

\* ThinkingServer.processToolRequest: the validation, whose error is answered
\* at once, then the tool of the request.
ProcessToolRequest(toolName, input) ==
    IF ValidateInput(input, toolName) # ""
    THEN Throw("processToolRequest", ValidateInput(input, toolName))
    ELSE IF ToolOfRequest(toolName, input) = "template-thinking"
    THEN TemplateProcessThought(input)
    ELSE IF ToolOfRequest(toolName, input) = "verification-thinking"
    THEN VerificationProcessThought(input)
    ELSE BranchProcessThought(input)

\* The inputs of requests: null, the object without properties, commands of
\* known and unknown types with known, unknown and missing ids, and the
\* request shapes of the two tools with known and unknown ids, with a field
\* left out and with the fields of two shapes at once.
CommandInputs ==
    { [EmptyCommand EXCEPT !.type = Given(type)] :
        type \in {"list-templates", "show-template", "continue-session",
                  "list-chains", "show-chain", "template-effectiveness",
                  "auto-select-template", "no-such-command", ""} }
    \cup {EmptyCommand}
    \cup { [EmptyCommand EXCEPT !.type = Given("show-template"),
                                !.templateId = Given(templateId)] :
            templateId \in {"solution-architecture-template", "template-404"} }
    \cup { [EmptyCommand EXCEPT !.type = Given("continue-session"),
                                !.sessionId = Given(sessionId)] :
            sessionId \in {GenerateId("session", 1), "session-404"} }
    \cup { [EmptyCommand EXCEPT !.type = Given("show-chain"),
                                !.chainId = Given(chainId)] :
            chainId \in {GenerateId("chain", 1), "chain-404"} }
    \cup { [EmptyCommand EXCEPT !.type = Given("record-template-selection"),
                                !.templateId = Given("template-404")] }
    \cup { [EmptyCommand EXCEPT !.type = Given(type),
                                !.templateId = Given("solution-architecture-template"),
                                !.problemDescription = Given("Fix this bug")] :
            type \in {"get-artifact-template", "recommend-template",
                      "auto-select-template", "record-template-selection"} }

RequestInputs ==
    {NullInput, EmptyInput}
    \cup { [EmptyInput EXCEPT !.command = Given(command)] : command \in CommandInputs }
    \cup { [EmptyInput EXCEPT !.createTemplate = Given(input)] :
            input \in CommandCreateTemplateInputs }
    \cup { [EmptyInput EXCEPT !.templateId = Given(templateId)] :
            templateId \in {"solution-architecture-template", "template-404"} }
    \cup { [EmptyInput EXCEPT !.sessionId = Given(sessionId),
                              !.stepId = Given(stepId), !.content = content] :
            sessionId \in {GenerateId("session", 1), "session-404"},
            stepId \in CommandStepIdInputs, content \in {Given("a"), Undefined} }
    \cup { [EmptyInput EXCEPT !.subject = Given("X")] }
    \cup { [EmptyInput EXCEPT !.chainId = Given(chainId), !.claim = Given("Y"),
                              !.type = type] :
            chainId \in {GenerateId("chain", 1), "chain-404"},
            type \in {Given("logical"), Undefined} }
    \cup { [EmptyInput EXCEPT !.chainId = Given(chainId), !.stepId = Given(stepId),
                              !.verification = Given("v")] :
            chainId \in {GenerateId("chain", 1), "chain-404"},
            stepId \in {GenerateId("step", 1), "step-404"} }
    \cup { [EmptyInput EXCEPT !.chainId = Given(GenerateId("chain", 1)),
                              !.stepId = Given(GenerateId("step", 1)),
                              !.verification = Given("v"),
                              !.claim = claim, !.type = type] :
            claim \in {Given("Y"), Undefined},
            type \in {Given("logical"), Undefined} }

---------------------------------------------------------------------------
(* The managers' start: construction and the asynchronous initial load *)

\* JSON.parse of a saved verification step.
ParseVerificationStep(saved) ==
    [id |-> The(saved.id), type |-> The(saved.type), claim |-> The(saved.claim),
     verification |-> The(saved.verification), status |-> The(saved.status),
     confidence |-> The(saved.confidence),
     evidence |-> IF "evidence" \in DOMAIN saved THEN saved.evidence ELSE Undefined,
     counterExample |-> IF "counterExample" \in DOMAIN saved
                        THEN saved.counterExample ELSE Undefined]

\* loadData's chain of a saved one: the saved properties, the dates parsed.
LoadedChain(saved) ==
    [id |-> saved.id, subject |-> saved.subject,
     steps |-> [i \in 1..Len(saved.steps) |-> ParseVerificationStep(saved.steps[i])],
     overallStatus |-> saved.overallStatus,
     startTime |-> ParseDate(saved.startTime),
     endTime |-> IF "endTime" \in DOMAIN saved /\ saved.endTime # ""
                 THEN ParseDate(saved.endTime) ELSE Unset]

\* VerificationManager.loadData: the counters and the chains are replaced.
LoadVerificationData(data) ==
    /\ chainCounter' = data.chainCounter
    /\ chainStepCounter' = data.stepCounter
    /\ chains' = [id \in DOMAIN data.chains |-> LoadedChain(data.chains[id])]

\* The process starts again: the two managers are constructed, with empty
\* maps and counters of 0, and each starts initializeAsync without awaiting
\* it. The files are those the process before left.
Construct ==
    /\ loaded.template /\ loaded.verification
    /\ templates' = <<>>
    /\ sessions' = <<>>
    /\ heap' = BuiltInStepLists
    /\ currentSessionId' = NoId
    /\ stepCounter' = 0
    /\ sessionCounter' = 0
    /\ templateCounter' = 0
    /\ recommendationHistory' = <<>>
    /\ chains' = <<>>
    /\ currentChainId' = NoId
    /\ chainStepCounter' = 0
    /\ chainCounter' = 0
    /\ loaded' = [template |-> FALSE, verification |-> FALSE]
    /\ response' = [op |-> "none", status |-> "ok", isError |-> FALSE]
    /\ UNCHANGED <<file, verificationFile, now, faults, persistence>>

\* TemplateManager.initializeAsync completes: the file has been read and
\* loadData runs over it, after whatever requests were handled meanwhile.
InitializeAsync ==
    /\ ~loaded.template
    /\ LoadData(ReadData(file, DefaultTemplateData), heap)
    /\ loaded' = [loaded EXCEPT !.template = TRUE]
    /\ UNCHANGED <<sessions, currentSessionId, file, recommendationHistory,
                   verificationState, verificationFile, now, faults,
                   persistence, response>>

\* VerificationManager.initializeAsync completes.
InitializeVerificationAsync ==
    /\ ~loaded.verification
    /\ LoadVerificationData(ReadData(verificationFile, DefaultVerificationData))
    /\ loaded' = [loaded EXCEPT !.verification = TRUE]
    /\ UNCHANGED <<managerState, file, recommendationHistory, currentChainId,
                   verificationFile, now, faults, persistence, response>>

\* The process starts again and both initial loads complete before the first
\* request.
FreshManagerLoads ==
    /\ loaded.template /\ loaded.verification
    /\ LoadData(ReadData(file, DefaultTemplateData), BuiltInStepLists)
    /\ LoadVerificationData(ReadData(verificationFile, DefaultVerificationData))
    /\ sessions' = <<>>
    /\ currentSessionId' = NoId
    /\ recommendationHistory' = <<>>
    /\ currentChainId' = NoId
    /\ response' = [op |-> "none", status |-> "ok", isError |-> FALSE]
    /\ UNCHANGED <<file, verificationFile, now, loaded, faults, persistence>>

\* The file system starts or stops failing operations: readFile with
\* JSON.parse, and writeFile.
FileSystemChanges(failing) ==
    /\ failing # faults
    /\ faults' = failing
    /\ UNCHANGED <<managerState, file, recommendationHistory, verificationState,
                   verificationFile, now, loaded, persistence, response>>

\* A process starts where no data file exists: the state the constructors
\* leave, before the initial load of the templates.
FirstRunInit ==
    /\ heap = BuiltInStepLists
    /\ templates = <<>>
    /\ sessions = <<>>
    /\ currentSessionId = NoId
    /\ stepCounter = 0
    /\ sessionCounter = 0
    /\ templateCounter = 0
    /\ file = DefaultTemplateData
    /\ recommendationHistory = <<>>
    /\ chains = <<>>
    /\ currentChainId = NoId
    /\ chainStepCounter = 0
    /\ chainCounter = 0
    /\ verificationFile = DefaultVerificationData
    /\ now = 1
    /\ loaded = [template |-> FALSE, verification |-> TRUE]
    /\ faults = {}
    /\ persistence = NoDataFile
    /\ response = [op |-> "none", status |-> "ok", isError |-> FALSE]

\* TemplateManager.initializeAsync on a first run: getData calls initialize
\* of the PersistenceManager, whose writes leave the default data in the
\* file, and loadData runs over the default data.
FirstRunInitializeAsync(room) ==
    /\ ~loaded.template
    /\ ~persistence.initialized
    /\ persistence' = Initialize(persistence, room)
    /\ file' = DefaultTemplateData
    /\ LoadData(DefaultTemplateData, heap)
    /\ loaded' = [loaded EXCEPT !.template = TRUE]
    /\ UNCHANGED <<sessions, currentSessionId, recommendationHistory,
                   verificationState, verificationFile, now, faults, response>>

---------------------------------------------------------------------------
(* The next-state relation *)

Next ==
    \/ \E input \in CreateTemplateInputs : CreateTemplate(input)
    \/ \E templateId \in TemplateIdInputs : CreateSession(templateId)
    \/ \E sessionId \in SessionIdInputs, stepId \in StepIdInputs, content \in ContentInputs :
            UpdateStep(sessionId, stepId, content)
    \/ Tick

\* The requests to the manager.
Spec == Init /\ [][Next]_vars

\* The commands of the tool, among requests to the manager over fewer inputs.
CommandNext ==
    \/ \E problemDescription \in ProblemDescriptionInputs :
            AutoSelectTemplate(problemDescription)
    \/ \E problemDescription \in RecommendDescriptionInputs :
            RecommendTemplateCommand(problemDescription, Undefined)
    \/ \E templateId \in TemplateIdInputs, problemDescription \in ProblemDescriptionInputs,
          wasAccepted \in BOOLEAN :
            RecordTemplateSelection(templateId, problemDescription, wasAccepted)
    \/ \E input \in CommandCreateTemplateInputs : CreateTemplate(input)
    \/ \E templateId \in TemplateIdInputs : CreateSession(templateId)
    \/ \E sessionId \in SessionIdInputs, stepId \in CommandStepIdInputs,
          content \in ContentInputs :
            UpdateStep(sessionId, stepId, content)
    \/ Tick

CommandSpec == Init /\ [][CommandNext]_vars

\* The recommender at work: the commands that ask it, the command that
\* records an outcome, and the requests that change the catalog and the usage
\* counts it reads.
RecommendNext ==
    \/ \E problemDescription \in RecommendDescriptionInputs, limit \in LimitInputs :
            RecommendTemplateCommand(problemDescription, limit)
    \/ \E problemDescription \in ProblemDescriptionInputs :
            AutoSelectTemplate(problemDescription)
    \/ \E templateId \in TemplateIdInputs, problemDescription \in ProblemDescriptionInputs,
          wasAccepted \in BOOLEAN :
            RecordTemplateSelection(templateId, problemDescription, wasAccepted)
    \/ \E input \in CommandCreateTemplateInputs : CreateTemplate(input)
    \/ \E templateId \in TemplateIdInputs : CreateSession(templateId)

RecommendSpec == Init /\ [][RecommendNext]_vars

\* The requests handed to processToolRequest, and a record-template-selection
\* command handed to handleCommand that names no template.
RequestNext ==
    \/ \E toolName \in ToolNameInputs, input \in RequestInputs :
            ProcessToolRequest(toolName, input)
    \/ RecordTemplateSelection("template-404", "Fix this bug", TRUE)

RequestSpec == Init /\ [][RequestNext]_vars

\* The first run of a process, and the requests to the template manager that
\* follow its initial load.
FirstRunNext ==
    \/ \E room \in CallDepths : FirstRunInitializeAsync(room)
    \/ /\ loaded.template
       /\ \/ \E input \in CommandCreateTemplateInputs : CreateTemplate(input)
          \/ \E templateId \in {"solution-architecture-template",
                                 GenerateId("template", 1)} :
                CreateSession(templateId)
          \/ \E stepId \in CommandStepIdInputs :
                UpdateStep(GenerateId("session", 1), stepId, "a")

FirstRunSpec == FirstRunInit /\ [][FirstRunNext]_vars

\* The mutating requests to the template manager, among restarts of the
\* process, completions of the initial loads, and failures of the file system.
PersistenceNext ==
    \/ \E input \in CommandCreateTemplateInputs : CreateTemplate(input)
    \/ \E templateId \in {"solution-architecture-template", GenerateId("template", 1)} :
            CreateSession(templateId)
    \/ \E stepId \in CommandStepIdInputs :
            UpdateStep(GenerateId("session", 1), stepId, "a")
    \/ Construct
    \/ InitializeAsync
    \/ InitializeVerificationAsync
    \/ FreshManagerLoads
    \/ \E failing \in SUBSET {"read", "write"} : FileSystemChanges(failing)

PersistenceSpec == Init /\ [][PersistenceNext]_vars

\* The mutating requests to the two managers, each written to its file, and
\* restarts of the process whose initial loads complete before a request.
RoundTripNext ==
    \/ \E input \in CommandCreateTemplateInputs : CreateTemplate(input)
    \/ \E templateId \in {"solution-architecture-template", GenerateId("template", 1)} :
            CreateSession(templateId)
    \/ \E stepId \in CommandStepIdInputs :
            UpdateStep(GenerateId("session", 1), stepId, "a")
    \/ CreateChain("X")
    \/ \E arguments \in AddStepArguments :
            AddVerificationStep(GenerateId("chain", 1), "logical", "Y",
                                "Pending verification...",
                                arguments.status, arguments.confidence,
                                arguments.evidence, arguments.counterExample)
    \/ UpdateVerificationStep(GenerateId("chain", 1), GenerateId("step", 1), "v",
                              "verified", 8, Undefined, Undefined)
    \/ FreshManagerLoads
    \/ Tick

RoundTripSpec == Init /\ [][RoundTripNext]_vars

\* The calls to the verification manager.
VerificationNext ==
    \/ CreateChain("X")
    \/ \E chainId \in ChainIdInputs, arguments \in AddStepArguments :
            AddVerificationStep(chainId, "logical", "Y", "Pending verification...",
                                arguments.status, arguments.confidence,
                                arguments.evidence, arguments.counterExample)
    \/ \E chainId \in ChainIdInputs, stepId \in ChainStepIdInputs,
          arguments \in UpdateStepArguments :
            UpdateVerificationStep(chainId, stepId, "v", arguments.status,
                                   arguments.confidence, arguments.evidence,
                                   arguments.counterExample)
    \/ Tick

VerificationSpec == Init /\ [][VerificationNext]_vars

---------------------------------------------------------------------------
(* Vocabulary of the properties *)

SessionIds == DOMAIN sessions

StepsOf(s) == heap[sessions[s].steps]

TemplateStepsOf(t) == heap[templates[t].steps]

StepIdsOf(steps) == [i \in 1..Len(steps) |-> steps[i].id]

AllComplete(s) == \A i \in 1..Len(StepsOf(s)) : StepsOf(s)[i].isComplete

\* 0-based index of the first step that is not complete.
FirstIncomplete(s) ==
    (CHOOSE i \in 1..Len(StepsOf(s)) :
        /\ ~StepsOf(s)[i].isComplete
        /\ \A j \in 1..(i - 1) : StepsOf(s)[j].isComplete) - 1

CursorAtFirstIncomplete(s) ==
    IF AllComplete(s)
    THEN sessions[s].currentStepIndex = Len(StepsOf(s)) - 1
    ELSE sessions[s].currentStepIndex = FirstIncomplete(s)

\* Steps 0..p-1 complete, the others not, the cursor on step p, no endTime:
\* session s after p updateStep calls made in index order.
InOrderAt(s, p) ==
    /\ p < Len(StepsOf(s))
    /\ \A i \in 1..Len(StepsOf(s)) : StepsOf(s)[i].isComplete <=> (i <= p)
    /\ sessions[s].currentStepIndex = p
    /\ sessions[s].endTime = Unset

---------------------------------------------------------------------------
(* C1. As claimed: in every reachable state the cursor of every session is
   the index of its first incomplete step, or the last index when every step
   is complete, whatever steps updateStep was called on. *)
C1_CursorIsFirstIncomplete == \A s \in SessionIds : CursorAtFirstIncomplete(s)

(* C2. Completing the steps of a session in index order: a new session is at
   position 0 with no endTime; updateStep on step p of a session at position
   p moves the cursor up by exactly one and leaves endTime unset when p is
   not the last step, and leaves the cursor on the last index and sets
   endTime when it is. *)
C2_InOrderAdvance ==
    [][\A s \in DOMAIN sessions' :
        IF s \notin SessionIds
        THEN InOrderAt(s, 0)'
        ELSE \A p \in 0..(Len(StepsOf(s)) - 1), content \in ContentInputs :
                (InOrderAt(s, p) /\ UpdateStep(s, StepsOf(s)[p + 1].id, content)) =>
                    IF p < Len(StepsOf(s)) - 1
                    THEN /\ sessions'[s].currentStepIndex = sessions[s].currentStepIndex + 1
                         /\ InOrderAt(s, p + 1)'
                    ELSE /\ sessions'[s].currentStepIndex = Len(StepsOf(s)) - 1
                         /\ sessions[s].endTime = Unset
                         /\ sessions'[s].endTime # Unset
                         /\ AllComplete(s)']_vars

\* A session of two steps, both complete, the cursor on the last, endTime set.
C2_Witness ==
    \E s \in SessionIds :
        /\ Len(StepsOf(s)) = 2
        /\ AllComplete(s)
        /\ sessions[s].currentStepIndex = 1
        /\ sessions[s].endTime # Unset

(* C3. As claimed: the cursor of a session never decreases; in particular
   updateStep on a complete step before the cursor leaves the cursor where
   it is. *)
C3_CursorNeverDecreases ==
    [][\A s \in SessionIds :
        sessions'[s].currentStepIndex >= sessions[s].currentStepIndex]_vars

(* C4. As claimed: once the endTime of a session is set, no later step
   changes it. *)
C4_EndTimeWrittenOnce ==
    [][\A s \in SessionIds :
        sessions[s].endTime # Unset => sessions'[s].endTime = sessions[s].endTime]_vars

(* C5. As claimed: in every reachable state a session whose endTime is set
   has every step complete. *)
C5_EndTimeMeansComplete ==
    \A s \in SessionIds : sessions[s].endTime # Unset => AllComplete(s)

(* C6. createSession for an id of the catalog adds one session, under an id
   no session had, whose step ids are the template's in the same order, with
   the cursor at 0, no step complete and no endTime; it becomes the current
   session. *)
C6_CreateSessionResult ==
    [][\A t \in DOMAIN templates :
        CreateSession(t) =>
            LET s == currentSessionId' IN
            /\ s \notin SessionIds
            /\ DOMAIN sessions' = SessionIds \cup {s}
            /\ sessions'[s].id = s
            /\ sessions'[s].templateId = t
            /\ StepIdsOf(heap'[sessions'[s].steps]) = StepIdsOf(TemplateStepsOf(t))
            /\ sessions'[s].currentStepIndex = 0
            /\ \A i \in 1..Len(heap'[sessions'[s].steps]) :
                    ~heap'[sessions'[s].steps][i].isComplete
            /\ sessions'[s].endTime = Unset]_vars

\* A second session has just been created from a template created by request.
C6_Witness ==
    /\ response = Ok("createSession", "")
    /\ Cardinality(SessionIds) = 2
    /\ currentSessionId \in SessionIds
    /\ ~templates[sessions[currentSessionId].templateId].isBuiltIn

(* C7. createSession with an id that is not in the catalog, and updateStep
   with an unknown session id or a step id that is not in the session, are
   answered with an error, and a step that ends in such an answer changes
   neither the catalog, the sessions, the step lists, the current session
   nor any id counter. *)
C7_FailureChangesNothing ==
    [][/\ \A t \in TemplateIdInputs :
            (t \notin DOMAIN templates /\ CreateSession(t)) => response'.isError
       /\ \A s \in SessionIdInputs, stepId \in StepIdInputs, content \in ContentInputs :
            (/\ \/ s \notin SessionIds
                \/ \A i \in 1..Len(StepsOf(s)) : StepsOf(s)[i].id # stepId
             /\ UpdateStep(s, stepId, content)) => response'.isError
       /\ (response'.isError /\ response'.op \in {"createSession", "updateStep"}) =>
            UNCHANGED managerState]_vars

\* An updateStep request has just failed while a session with a complete
\* step and a used template exist.
C7_Witness ==
    /\ response = Failed("updateStep", "")
    /\ \E s \in SessionIds : StepsOf(s)[1].isComplete
    /\ \E t \in DOMAIN templates : templates[t].usageCount > 0

(* C8. In every step the usageCount of each template of the catalog rises by
   the number of sessions the step creates from that template, which is one
   for the template named by a successful createSession (or chosen by
   auto-select-template) and zero for every other template and for every
   step that creates no session: createTemplate, updateStep, the commands
   recommend-template and record-template-selection, failed requests. *)
C8_UsageCountFrame ==
    [][LET created == DOMAIN sessions' \ SessionIds IN
       /\ Cardinality(created) <= 1
       /\ \A t \in DOMAIN templates :
            /\ CreateSession(t) => \E s \in created : sessions'[s].templateId = t
            /\ templates'[t].usageCount =
                    templates[t].usageCount
                    + Cardinality({s \in created : sessions'[s].templateId = t})
       /\ \/ created = {}
          \/ ~(\/ \E input \in CreateTemplateInputs : CreateTemplate(input)
               \/ \E s \in SessionIdInputs, stepId \in StepIdInputs, content \in ContentInputs :
                    UpdateStep(s, stepId, content)
               \/ \E d \in RecommendDescriptionInputs, limit \in LimitInputs :
                    RecommendTemplateCommand(d, limit)
               \/ \E t \in TemplateIdInputs, d \in ProblemDescriptionInputs, a \in BOOLEAN :
                    RecordTemplateSelection(t, d, a))]_vars

\* auto-select-template has just created a session from the research
\* template while another template had been used once by createSession: each
\* of the two has usageCount 1, the remaining templates 0.
C8_Witness ==
    /\ response = Ok("auto-select-template", "")
    /\ currentSessionId \in SessionIds
    /\ sessions[currentSessionId].templateId = "tech-knowledge-base-template"
    /\ templates["tech-knowledge-base-template"].usageCount = 1
    /\ templates["solution-architecture-template"].usageCount = 1
    /\ \A t \in DOMAIN templates :
            t \notin {"tech-knowledge-base-template", "solution-architecture-template"}
                => templates[t].usageCount = 0

(* C9. updateStep on session s changes, of all step lists, only the content
   and isComplete of the named step of s: the steps of every template and of
   every other session, and the other steps of s, are as before; no two
   owners share a step list. *)
C9_UpdateStepFrame ==
    [][\A s \in SessionIds, stepId \in StepIdInputs, content \in ContentInputs :
        (UpdateStep(s, stepId, content) /\ ~response'.isError) =>
            /\ templates' = templates
            /\ \A t \in DOMAIN templates : heap'[templates[t].steps] = TemplateStepsOf(t)
            /\ \A o \in SessionIds \ {s} :
                    /\ sessions'[o] = sessions[o]
                    /\ heap'[sessions[o].steps] = StepsOf(o)
            /\ Len(heap'[sessions'[s].steps]) = Len(StepsOf(s))
            /\ \A i \in 1..Len(StepsOf(s)) :
                    LET before == StepsOf(s)[i]
                        after == heap'[sessions'[s].steps][i]
                    IN  /\ after.id = before.id
                        /\ after.order = before.order
                        /\ IF i = FindIndex(StepsOf(s), stepId) + 1
                           THEN after.content = content /\ after.isComplete
                           ELSE after = before]_vars

\* Two sessions of one template, one with its first step complete and the
\* other, like the template, with no step complete.
C9_Witness ==
    \E s \in SessionIds, o \in SessionIds :
        /\ s # o
        /\ sessions[s].templateId = sessions[o].templateId
        /\ StepsOf(s)[1].isComplete
        /\ \A i \in 1..Len(StepsOf(o)) : ~StepsOf(o)[i].isComplete
        /\ \A i \in 1..Len(StepsOf(o)) :
                ~TemplateStepsOf(sessions[o].templateId)[i].isComplete

(* C10. As claimed: every template of the catalog has steps with pairwise
   distinct ids and order values 1..N in list order. *)
C10_StepsDenseAndDistinct ==
    \A t \in DOMAIN templates :
        /\ \A i, j \in 1..Len(TemplateStepsOf(t)) :
                i # j => TemplateStepsOf(t)[i].id # TemplateStepsOf(t)[j].id
        /\ \A i \in 1..Len(TemplateStepsOf(t)) : TemplateStepsOf(t)[i].order = i

---------------------------------------------------------------------------
(* C11. A createTemplate request with an empty steps list, with a step whose
   order is below 1, or with an empty name, category, description or step
   content is answered with an error, and the step leaves the catalog, the
   step lists and the three id counters as they were. *)
C11_InvalidTemplateRejected ==
    [][\A input \in CreateTemplateInputs :
        (/\ \/ Len(input.steps) = 0
            \/ \E i \in 1..Len(input.steps) : input.steps[i].order < 1
            \/ \E i \in 1..Len(input.steps) : input.steps[i].content = ""
            \/ input.name = "" \/ input.category = "" \/ input.description = ""
         /\ CreateTemplate(input))
        => /\ response'.isError
           /\ response'.op = "createTemplate"
           /\ UNCHANGED <<templates, heap, stepCounter, sessionCounter,
                          templateCounter>>]_vars

\* A createTemplate request has just been rejected in a manager that holds a
\* created template and a session.
C11_Witness ==
    /\ response = Failed("createTemplate", "")
    /\ templateCounter = 1
    /\ sessionCounter >= 1

---------------------------------------------------------------------------
(* Vocabulary of the verification properties *)

ChainIds == DOMAIN chains

\* The statuses of the steps of chain c.
StepStatuses(c) == {chains[c].steps[i].status : i \in 1..Len(chains[c].steps)}

---------------------------------------------------------------------------
(* C12. In every reachable state the overallStatus of every chain is what the
   five rules give, in their order, for its present steps: pending without
   steps; else in_progress with a pending step; else failed with a failed
   step; else verified when every step is verified; else in_progress. *)
C12_StatusIsDerived ==
    \A c \in ChainIds :
        LET steps == chains[c].steps
            derived ==
                IF Len(steps) = 0 THEN "pending"
                ELSE IF \E i \in 1..Len(steps) : steps[i].status = "pending"
                THEN "in_progress"
                ELSE IF \E i \in 1..Len(steps) : steps[i].status = "failed"
                THEN "failed"
                ELSE IF \A i \in 1..Len(steps) : steps[i].status = "verified"
                THEN "verified"
                ELSE "in_progress"
        IN  chains[c].overallStatus = derived

\* A chain of two steps, one verified and one skipped, falls under the last
\* rule.
C12_Witness ==
    \E c \in ChainIds :
        /\ Len(chains[c].steps) = 2
        /\ StepStatuses(c) = {"verified", "skipped"}
        /\ chains[c].overallStatus = "in_progress"

(* C13. The overallStatus of a chain is a function of the set of its steps'
   statuses, whatever the order of the steps: a pending step among them gives
   in_progress, also next to a failed one; failed and verified give failed;
   verified alone gives verified, with endTime set. *)
C13_StatusOfStatusSet ==
    \A c \in ChainIds :
        /\ chains[c].overallStatus =
                (IF StepStatuses(c) = {} THEN "pending"
                 ELSE IF "pending" \in StepStatuses(c) THEN "in_progress"
                 ELSE IF "failed" \in StepStatuses(c) THEN "failed"
                 ELSE IF StepStatuses(c) = {"verified"} THEN "verified"
                 ELSE "in_progress")
        /\ StepStatuses(c) = {"pending", "verified"} =>
                chains[c].overallStatus = "in_progress"
        /\ StepStatuses(c) = {"failed", "verified"} =>
                chains[c].overallStatus = "failed"
        /\ StepStatuses(c) = {"pending", "failed"} =>
                chains[c].overallStatus = "in_progress"
        /\ StepStatuses(c) = {"verified"} =>
                chains[c].overallStatus = "verified" /\ chains[c].endTime # Unset

\* A chain whose first step is pending and whose second step has failed.
C13_Witness ==
    \E c \in ChainIds :
        /\ Len(chains[c].steps) = 2
        /\ chains[c].steps[1].status = "pending"
        /\ chains[c].steps[2].status = "failed"
        /\ chains[c].overallStatus = "in_progress"

(* C14. A step of the program sets the endTime of a chain only when the chain
   had none and its status comes out as verified, it sets it to the time of
   that step, and no step changes an endTime that is set, whatever the chain's
   status becomes. *)
C14_ChainEndTimeWrittenOnce ==
    [][\A c \in ChainIds :
        /\ chains[c].endTime # Unset => chains'[c].endTime = chains[c].endTime
        /\ (chains[c].endTime = Unset /\ chains'[c].overallStatus = "verified"
                /\ chains'[c] # chains[c])
                => chains'[c].endTime = now
        /\ (chains[c].endTime = Unset /\ chains'[c].endTime # Unset)
                => chains'[c].overallStatus = "verified"]_vars

\* A chain that is verified after an update made later than its endTime.
C14_Witness ==
    /\ response = Ok("updateVerificationStep", "")
    /\ now = 2
    /\ \E c \in ChainIds :
            /\ chains[c].overallStatus = "verified"
            /\ chains[c].endTime = 1
            /\ chains[c].steps[1].verification = "v"

(* C15. A chain is pending exactly when it has no steps: createChain leaves
   the new chain pending, the first step added with the status left out makes
   it in_progress, and updating the single step of a chain to verified makes
   the chain verified with endTime set. *)
C15_PendingIffNoSteps ==
    [][/\ \A c \in DOMAIN chains' :
            chains'[c].overallStatus = "pending" <=> Len(chains'[c].steps) = 0
       /\ (response'.op = "createChain" /\ CreateChain("X"))
            => chains'[currentChainId'].overallStatus = "pending"
       /\ \A c \in ChainIds :
            (/\ Len(chains[c].steps) = 0
             /\ response'.op = "addVerificationStep"
             /\ AddVerificationStep(c, "logical", "Y", "Pending verification...",
                                    Undefined, Undefined, Undefined, Undefined))
            => /\ chains'[c].overallStatus = "in_progress"
               /\ chains'[c].steps[1].status = "pending"
       /\ \A c \in ChainIds, stepId \in ChainStepIdInputs :
            (/\ Len(chains[c].steps) = 1
             /\ chains[c].steps[1].id = stepId
             /\ response'.op = "updateVerificationStep"
             /\ UpdateVerificationStep(c, stepId, "v", "verified", 8,
                                       Undefined, Undefined))
            => /\ chains'[c].overallStatus = "verified"
               /\ chains'[c].endTime # Unset]_vars

\* The single step of a chain, added with the status left out, has just been
\* updated to verified.
C15_Witness ==
    /\ response = Ok("updateVerificationStep", "")
    /\ \E c \in ChainIds :
            /\ Len(chains[c].steps) = 1
            /\ chains[c].steps[1].status = "verified"
            /\ chains[c].steps[1].evidence = Undefined
            /\ chains[c].overallStatus = "verified"
            /\ chains[c].endTime = now

(* C16. An updateVerificationStep call that succeeds stores the verification,
   status and confidence passed; it stores the evidence (the counterExample)
   passed when one is passed, the empty string included, and leaves the stored
   one when none is passed; the step's id, type and claim, the other steps of
   the chain and the steps of the other chains are as before. *)
C16_UpdateMerges ==
    [][\A c \in ChainIdInputs, stepId \in ChainStepIdInputs,
         arguments \in UpdateStepArguments :
        (/\ response'.op = "updateVerificationStep"
         /\ ~response'.isError
         /\ UpdateVerificationStep(c, stepId, "v", arguments.status,
                                   arguments.confidence, arguments.evidence,
                                   arguments.counterExample))
        => LET k == FindStep(chains[c].steps, stepId)
               old == chains[c].steps[k]
               new == chains'[c].steps[k]
           IN  /\ new.verification = "v"
               /\ new.status = arguments.status
               /\ new.confidence = arguments.confidence
               /\ new.evidence = IF arguments.evidence = Undefined
                                 THEN old.evidence ELSE arguments.evidence
               /\ new.counterExample = IF arguments.counterExample = Undefined
                                       THEN old.counterExample
                                       ELSE arguments.counterExample
               /\ new.id = old.id /\ new.type = old.type /\ new.claim = old.claim
               /\ Len(chains'[c].steps) = Len(chains[c].steps)
               /\ \A i \in 1..Len(chains[c].steps) :
                        i # k => chains'[c].steps[i] = chains[c].steps[i]
               /\ \A d \in ChainIds : d # c => chains'[d] = chains[d]]_vars

\* A step added with evidence and a counterExample has been updated without
\* either, next to a step updated with both passed as the empty string.
C16_Witness ==
    /\ response = Ok("updateVerificationStep", "")
    /\ \E c \in ChainIds :
            /\ Len(chains[c].steps) = 2
            /\ chains[c].steps[1].verification = "v"
            /\ chains[c].steps[1].evidence = Given("e")
            /\ chains[c].steps[1].counterExample = Given("x")
            /\ chains[c].steps[2].verification = "v"
            /\ chains[c].steps[2].evidence = Given("")

(* C17. addVerificationStep with a chain id that names no chain, and
   updateVerificationStep with such a chain id or with a step id that is not
   in the chain, are answered with an error, and the step changes no chain,
   no current chain and no id counter. *)
C17_VerificationFailureChangesNothing ==
    [][/\ \A c \in ChainIdInputs :
            (/\ c \notin ChainIds
             /\ \E arguments \in AddStepArguments :
                    AddVerificationStep(c, "logical", "Y", "Pending verification...",
                                        arguments.status, arguments.confidence,
                                        arguments.evidence, arguments.counterExample))
            => response'.isError /\ response'.op = "addVerificationStep"
       /\ \A c \in ChainIdInputs, stepId \in ChainStepIdInputs :
            (/\ \/ c \notin ChainIds
                \/ \A i \in 1..Len(chains[c].steps) : chains[c].steps[i].id # stepId
             /\ \E arguments \in UpdateStepArguments :
                    UpdateVerificationStep(c, stepId, "v", arguments.status,
                                           arguments.confidence, arguments.evidence,
                                           arguments.counterExample))
            => response'.isError /\ response'.op = "updateVerificationStep"
       /\ (response'.isError
            /\ response'.op \in {"addVerificationStep", "updateVerificationStep"})
            => UNCHANGED verificationState]_vars

\* An updateVerificationStep call has just failed on a chain that holds a
\* step: the step id named is not one of the chain's.
C17_Witness ==
    /\ response = Failed("updateVerificationStep", "")
    /\ chainCounter = 2
    /\ chainStepCounter = 1

(* C18. As claimed: in every reachable state the confidence of every step of
   every chain lies between 0 and 1 (0 and 10 tenths). *)
C18_ConfidenceInUnitInterval ==
    \A c \in ChainIds : \A i \in 1..Len(chains[c].steps) :
        /\ chains[c].steps[i].confidence >= 0
        /\ chains[c].steps[i].confidence <= 10

---------------------------------------------------------------------------
\* The response is a successful answer of recommend-template.
IsRecommendation == response.op = "recommend-template" /\ response.status = "ok"

(* C19. As claimed: the confidence of every analysis that analyzeContext
   returns lies between 0.3 and 0.95 (300 and 950 thousandths), also when a
   single keyword and no pattern matched. *)
C19_ConfidenceBetweenFloorAndCap ==
    IsRecommendation => response.confidence >= 300 /\ response.confidence <= 950

(* C20. As claimed: the category identified is the one whose combined score
   is the highest; it is analysis when several categories share the highest
   score and when every category scores 0. *)
C20_TopCategoryTiesToAnalysis ==
    IsRecommendation =>
        LET scores == combinedScoresOf[response.request]
            best == {i \in 1..Len(Categories) :
                        \A j \in 1..Len(Categories) : scores[j] <= scores[i]}
        IN  response.category =
                IF Cardinality(best) > 1 THEN "analysis"
                ELSE Categories[CHOOSE i \in best : TRUE]

---------------------------------------------------------------------------
(* C21. The recommendations are a function of the description, the limit,
   the catalog and the usage counts: a step that changes the recommendation
   history and leaves the catalog as it is changes the answer to no request
   asked for all templates, and a
   recommend-template command that repeats the request just answered gets
   the same templates in the same order with the same scores. *)
C21_RecommendationsIgnoreHistory ==
    [][/\ (recommendationHistory' # recommendationHistory
            /\ templates' = templates /\ heap' = heap)
            => \A d \in RecommendDescriptionInputs \ {""} :
                    GetTemplateRecommendations(d, GetAllTemplates,
                                               Len(GetAllTemplates))'
                    = GetTemplateRecommendations(d, GetAllTemplates,
                                                 Len(GetAllTemplates))
       /\ (/\ IsRecommendation
           /\ response'.op = "recommend-template"
           /\ RecommendTemplateCommand(response.request, Given(response.limit)))
            => response'.recommendations = response.recommendations]_vars

\* Three templates are recommended while the history holds an accepted
\* outcome.
C21_Witness ==
    /\ IsRecommendation
    /\ Len(response.recommendations) = 3
    /\ Len(recommendationHistory) = 1
    /\ recommendationHistory[1].wasAccepted

\* The recommendations are picked from the candidates as the claim has it,
\* detailedScore[t] being the score of candidate t.
SelectionIsGreedy(recommendations, candidates, detailedScore) ==
    /\ \A i, j \in 1..Len(recommendations) :
            recommendations[i].templateId = recommendations[j].templateId => i = j
    /\ \A i \in 1..Len(recommendations) :
            /\ recommendations[i].templateId \in candidates
            /\ recommendations[i].score = detailedScore[recommendations[i].templateId]
    /\ Len(recommendations) > 0 =>
            \A t \in candidates : detailedScore[t] <= recommendations[1].score
    /\ \A i \in 2..Len(recommendations) :
            LET earlier == {recommendations[m].templateId : m \in 1..(i - 1)}
                usedCategories == {templates[t].category : t \in earlier}
                left == candidates \ earlier
                fresh == {t \in left : templates[t].category \notin usedCategories}
                pool == IF fresh # {} THEN fresh ELSE left
            IN  /\ recommendations[i].templateId \in pool
                /\ \A t \in pool : detailedScore[t] <= recommendations[i].score

(* C22. As claimed: recommend-template's recommendations number
   min(limit, number of candidates), repeat no template, begin with a
   highest-scoring candidate, and go on, pick by pick, with a highest-scoring
   remaining candidate of a category not yet in the result, or with a
   highest-scoring remaining candidate when every remaining category is in
   the result. *)
C22_DiverseRecommendations ==
    IsRecommendation =>
        /\ Len(response.recommendations) =
                (IF response.limit < Len(GetAllTemplates)
                 THEN response.limit ELSE Len(GetAllTemplates))
        /\ SelectionIsGreedy(response.recommendations,
                {GetAllTemplates[i] : i \in 1..Len(GetAllTemplates)},
                [t \in {GetAllTemplates[i] : i \in 1..Len(GetAllTemplates)} |->
                    DetailedScore(response.request, t)])

(* C23. As claimed: every successful record-template-selection command, and
   so every call of recordRecommendationOutcome, appends one entry to the
   recommendation history, with the template and the accepted flag given,
   and leaves the earlier entries as they were. *)
C23_OutcomeAppended ==
    [][\A t \in TemplateIdInputs, d \in ProblemDescriptionInputs, a \in BOOLEAN :
        (/\ response'.op = "record-template-selection"
         /\ response'.status = "ok"
         /\ RecordTemplateSelection(t, d, a))
        => /\ Len(recommendationHistory') = Len(recommendationHistory) + 1
           /\ recommendationHistory'[Len(recommendationHistory')].templateId = t
           /\ recommendationHistory'[Len(recommendationHistory')].wasAccepted = a
           /\ SubSeq(recommendationHistory', 1, Len(recommendationHistory))
                = recommendationHistory]_vars

\* The counters are below the bounds of the model, so that no request is
\* held back by a bound.
BelowBounds ==
    /\ templateCounter < MaxTemplates
    /\ sessionCounter < MaxSessions
    /\ chainCounter < MaxChains
    /\ chainStepCounter < MaxChainSteps

\* The input is a command for one of the two tools, of a type that is not
\* one of the tool's.
UnknownCommandType(toolName, input) ==
    /\ toolName \in {"template-thinking", "verification-thinking"}
    /\ input.isObject
    /\ input.command # Undefined
    /\ Truthy(The(input.command).type)
    /\ The(The(input.command).type) \notin
            (IF toolName = "template-thinking"
             THEN {"list-templates", "show-template", "continue-session"}
             ELSE {"list-chains", "show-chain"})

\* The requests that are commands of a type their tool does not know.
UnknownCommandRequests ==
    {request \in ToolNameInputs \X RequestInputs :
        UnknownCommandType(request[1], request[2])}

(* C24. processToolRequest answers every request, whatever the tool name and
   the input (null, no property, unknown command types, unknown ids, fields
   left out): the request is handled in every state, and it ends with a
   reply that reports success or failure. A command of a type the tool does
   not know is answered with a failure whose isError is set, and it changes
   nothing of the managers, the history and the files. *)
C24_EveryRequestAnswered ==
    /\ [](BelowBounds =>
            \A toolName \in ToolNameInputs, input \in RequestInputs :
                ENABLED ProcessToolRequest(toolName, input))
    /\ [](response.status \in {"ok", "failed"} /\ response.isError \in BOOLEAN)
    /\ [][\/ /\ response'.status = "failed"
              /\ response'.isError
              /\ UNCHANGED <<managerState, file, recommendationHistory,
                             verificationState, verificationFile>>
           \/ \A request \in UnknownCommandRequests :
                ~ProcessToolRequest(request[1], request[2])]_vars

C24_Witness ==
    /\ response.op = "processToolRequest"
    /\ response.isError
    /\ DOMAIN sessions # {}
    /\ DOMAIN chains # {}
    /\ templateCounter > 0

\* A request with the input, made of the empty input and the properties given.
CommandRequest(type, templateId, sessionId, chainId) ==
    [EmptyInput EXCEPT !.command =
        Given([EmptyCommand EXCEPT !.type = Given(type),
                                   !.templateId = templateId,
                                   !.sessionId = sessionId,
                                   !.chainId = chainId])]

(* C30. As claimed: a request that names an id of no template, session,
   chain or step is answered with isError set: the commands show-template,
   continue-session, record-template-selection and show-chain, and the
   requests that create a session, update a step, add a verification step
   and update a verification step. *)
C30_NotFoundIsError ==
    [][(response'.status = "failed" /\
        \/ ProcessToolRequest("template-thinking",
                CommandRequest("show-template", Given("template-404"),
                               Undefined, Undefined))
        \/ ProcessToolRequest("template-thinking",
                CommandRequest("continue-session", Undefined,
                               Given("session-404"), Undefined))
        \/ ProcessToolRequest("verification-thinking",
                CommandRequest("show-chain", Undefined, Undefined,
                               Given("chain-404")))
        \/ RecordTemplateSelection("template-404", "Fix this bug", TRUE)
        \/ ProcessToolRequest("template-thinking",
                [EmptyInput EXCEPT !.templateId = Given("template-404")])
        \/ \E stepId \in CommandStepIdInputs :
             ProcessToolRequest("template-thinking",
                [EmptyInput EXCEPT !.sessionId = Given("session-404"),
                    !.stepId = Given(stepId), !.content = Given("a")])
        \/ ProcessToolRequest("verification-thinking",
                [EmptyInput EXCEPT !.chainId = Given("chain-404"),
                    !.claim = Given("Y"), !.type = Given("logical")])
        \/ \E stepId \in {GenerateId("step", 1), "step-404"} :
             ProcessToolRequest("verification-thinking",
                [EmptyInput EXCEPT !.chainId = Given("chain-404"),
                    !.stepId = Given(stepId), !.verification = Given("v")]))
        => response'.isError]_vars

\* A createTemplate request the validator accepts.
GoodTemplateInput ==
    [name |-> "T", category |-> "custom", description |-> "D",
     steps |-> <<[content |-> "c", order |-> 1]>>]

(* C25. A failure of the file system does not fail a request. In every
   state, and so while writes fail, while reads fail, and after an initial
   load whose read failed, a mutating request with valid arguments is
   answered with success and the memory holds its mutation afterwards: the
   created template is in the catalog, the created session is in the
   sessions, the updated step is complete with the content given. A write
   that fails leaves the file as it was, and an initial load whose read
   fails leaves the manager with the built-in templates and counters of 0. *)
C25_FailuresAreSurvived ==
    /\ [](/\ templateCounter < MaxTemplates =>
                ENABLED (/\ CreateTemplate(GoodTemplateInput)
                         /\ response'.status = "ok"
                         /\ GenerateId("template", templateCounter + 1)
                                \in DOMAIN templates')
          /\ \A templateId \in DOMAIN templates :
                sessionCounter < MaxSessions =>
                    ENABLED (/\ CreateSession(templateId)
                             /\ response'.status = "ok"
                             /\ GenerateId("session", sessionCounter + 1)
                                    \in DOMAIN sessions')
          /\ \A sessionId \in DOMAIN sessions :
                \A i \in 1..Len(heap[sessions[sessionId].steps]) :
                    ENABLED (/\ UpdateStep(sessionId,
                                    heap[sessions[sessionId].steps][i].id, "a")
                             /\ response'.status = "ok"
                             /\ \E j \in 1..Len(heap'[sessions'[sessionId].steps]) :
                                    /\ heap'[sessions'[sessionId].steps][j].isComplete
                                    /\ heap'[sessions'[sessionId].steps][j].content = "a"))
    /\ [][/\ ("write" \in faults /\ faults' = faults) => file' = file
          /\ (InitializeAsync /\ "read" \in faults) =>
                /\ templates' = BuiltInCatalog
                /\ templateCounter' = 0 /\ sessionCounter' = 0 /\ stepCounter' = 0]_vars

C25_Witness ==
    /\ "write" \in faults
    /\ response.op = "createTemplate"
    /\ response.status = "ok"
    /\ GenerateId("template", 1) \in DOMAIN templates
    /\ GenerateId("template", 1) \notin DOMAIN file.templates
    /\ loaded.template

(* C26. As claimed: a mutating request that succeeds while writes do not fail
   leaves in the file the snapshot of the memory after the mutation: the
   templates that are created or used and the three counters for the
   template manager, the chains and the two counters for the verification
   manager. *)
C26_SnapshotIsWritten ==
    [][/\ (/\ response'.op \in {"createTemplate", "createSession", "updateStep"}
           /\ response'.status = "ok"
           /\ "write" \notin faults
           /\ faults' = faults /\ loaded' = loaded)
          => file' = SaveData(templates', heap', sessionCounter',
                              templateCounter', stepCounter')
       /\ (/\ response'.op \in {"createChain", "addVerificationStep",
                                "updateVerificationStep"}
           /\ response'.status = "ok"
           /\ "write" \notin faults
           /\ faults' = faults /\ loaded' = loaded)
          => verificationFile' = SaveVerificationData(chains', chainCounter',
                                                      chainStepCounter')]_vars

\* The templates of a catalog that are not built in.
CustomTemplates(catalog) == {id \in DOMAIN catalog : ~catalog[id].isBuiltIn}

(* C27. Save, then load, is a round trip. When the files hold what the
   managers saved last, the managers of a process that starts and loads the
   files hold the same chains (ids, subjects, steps, overallStatus,
   startTime, endTime present or absent), the same custom templates (every
   property, the steps by value), the same counters, and every built-in
   template, marked isBuiltIn, with the usage count it had. *)
C27_SaveLoadRoundTrip ==
    [][(/\ response'.op = "none"
        /\ file = SaveData(templates, heap, sessionCounter, templateCounter,
                           stepCounter)
        /\ verificationFile = SaveVerificationData(chains, chainCounter,
                                                   chainStepCounter)
        /\ FreshManagerLoads)
       => /\ DOMAIN chains' = DOMAIN chains
          /\ \A c \in DOMAIN chains :
                /\ chains'[c].id = chains[c].id
                /\ chains'[c].subject = chains[c].subject
                /\ chains'[c].steps = chains[c].steps
                /\ chains'[c].overallStatus = chains[c].overallStatus
                /\ chains'[c].startTime = chains[c].startTime
                /\ (chains'[c].endTime = Unset) <=> (chains[c].endTime = Unset)
          /\ CustomTemplates(templates') = CustomTemplates(templates)
          /\ \A t \in CustomTemplates(templates) :
                /\ [templates'[t] EXCEPT !.steps = 0] = [templates[t] EXCEPT !.steps = 0]
                /\ heap'[templates'[t].steps] = heap[templates[t].steps]
          /\ templateCounter' = templateCounter
          /\ sessionCounter' = sessionCounter
          /\ stepCounter' = stepCounter
          /\ chainCounter' = chainCounter
          /\ chainStepCounter' = chainStepCounter
          /\ \A b \in BuiltInIds :
                /\ b \in DOMAIN templates'
                /\ templates'[b].isBuiltIn
                /\ templates'[b].usageCount = templates[b].usageCount]_vars

C27_Witness ==
    /\ response.op = "none"
    /\ sessionCounter > 0
    /\ DOMAIN sessions = {}
    /\ templates["solution-architecture-template"].usageCount > 0
    /\ CustomTemplates(templates) # {}
    /\ \E c \in DOMAIN chains : chains[c].endTime # Unset /\ Len(chains[c].steps) > 0
    /\ \E c \in DOMAIN chains : chains[c].endTime = Unset

\* The step is a start of the process, which constructs new managers.
ProcessStarts ==
    \/ loaded.template /\ ~loaded'.template
    \/ response'.op = "none" /\ loaded' = loaded /\ FreshManagerLoads

(* C28. As claimed: a session, once created, stays: over every step of a
   manager, which is a createTemplate, createSession or updateStep request or
   the completion of its load of the file, every session of the manager is a
   session afterwards, under the same id and with the same templateId. *)
C28_SessionsAreKept ==
    [][~ProcessStarts =>
        \A s \in DOMAIN sessions :
            /\ s \in DOMAIN sessions'
            /\ sessions'[s].id = sessions[s].id
            /\ sessions'[s].templateId = sessions[s].templateId]_vars

(* C29. As claimed: over every step of the managers, the requests handled
   while the initial load is in progress and the completion of that load
   among them, no id counter decreases, and the id given to a created
   template, session or chain is the id of no template, session or chain
   the manager holds. *)
C29_CountersNeverDecrease ==
    [][~ProcessStarts =>
        /\ templateCounter' >= templateCounter
        /\ sessionCounter' >= sessionCounter
        /\ stepCounter' >= stepCounter
        /\ chainCounter' >= chainCounter
        /\ chainStepCounter' >= chainStepCounter
        /\ (loaded' = loaded /\ faults' = faults /\ response'.status = "ok") =>
            /\ (response'.op = "createSession" /\ sessionCounter' # sessionCounter)
                    => currentSessionId' \notin DOMAIN sessions
            /\ (response'.op = "createTemplate" /\ templateCounter' # templateCounter)
                    => GenerateId("template", templateCounter') \notin DOMAIN templates
            /\ (response'.op = "createChain" /\ chainCounter' # chainCounter)
                    => currentChainId' \notin DOMAIN chains]_vars

\* The request of the command auto-select-template for a problem.
AutoSelectRequest(problemDescription) ==
    [EmptyInput EXCEPT !.command =
        Given([EmptyCommand EXCEPT !.type = Given("auto-select-template"),
                   !.problemDescription = Given(problemDescription)])]

\* The recommendation history has recorded an accepted recommendation that
\* `history` had not.
AcceptedIsRecorded(history, recorded) ==
    \E i \in 1..Len(recorded) :
        /\ recorded[i].wasAccepted
        /\ i > Len(history) \/ ~history[i].wasAccepted

(* C31. As claimed: the command auto-select-template with a non-empty
   problemDescription, sent to the server for the tool template-thinking
   while the catalog is non-empty, creates exactly one new session, whose
   currentStepIndex is 0 and whose template is in the catalog, and records
   the recommendation as accepted. *)
C31_AutoSelectCreatesSession ==
    [][(/\ DOMAIN templates # {}
        /\ \/ ProcessToolRequest("template-thinking",
                    AutoSelectRequest("Fix this bug"))
           \/ ProcessToolRequest("template-thinking",
                    [EmptyInput EXCEPT !.command =
                        Given([The(AutoSelectRequest("Fix this bug").command)
                               EXCEPT !.templateId =
                                   Given("solution-architecture-template")])]))
        => /\ Cardinality(DOMAIN sessions' \ DOMAIN sessions) = 1
           /\ \A id \in DOMAIN sessions' \ DOMAIN sessions :
                /\ sessions'[id].currentStepIndex = 0
                /\ sessions'[id].templateId \in DOMAIN templates
           /\ AcceptedIsRecorded(recommendationHistory, recommendationHistory')
    ]_vars

\* One well-formed command of each type the switch of handleCommand has a
\* case for.
HandledCommands ==
    { [EmptyCommand EXCEPT !.type = Given(type)] :
        type \in {"list-templates", "template-effectiveness"} }
    \cup { [EmptyCommand EXCEPT !.type = Given("show-template"),
                !.templateId = Given("solution-architecture-template")],
           [EmptyCommand EXCEPT !.type = Given("continue-session"),
                !.sessionId = Given(GenerateId("session", 1))] }
    \cup { [EmptyCommand EXCEPT !.type = Given(type),
                !.templateId = Given("solution-architecture-template"),
                !.problemDescription = Given("Fix this bug")] :
            type \in {"get-artifact-template", "recommend-template",
                      "auto-select-template", "record-template-selection"} }

(* C34. As claimed: every command type handleCommand implements
   (list-templates, show-template, continue-session, get-artifact-template,
   recommend-template, auto-select-template, record-template-selection,
   template-effectiveness) passes validateTemplateThinkingInput, so a request
   for template-thinking that carries it is answered by handleCommand under
   the command's type and not by the validation of processToolRequest. *)
C34_HandledCommandsAreValid ==
    [][\A command \in HandledCommands :
        \/ /\ ValidateTemplateThinkingInput(
                    [EmptyInput EXCEPT !.command = Given(command)]) = ""
           /\ response'.op = The(command.type)
        \/ ~ProcessToolRequest("template-thinking",
                [EmptyInput EXCEPT !.command = Given(command)])]_vars

\* What a request addressed to the tool name may do: under a registered name
\* it leaves the state of the other tool alone, and under a name of no tool
\* it is answered with the error of processToolRequest and changes nothing.
OnlyTheNamedTool(toolName) ==
    IF toolName = "template-thinking"
    THEN UNCHANGED <<verificationState, verificationFile>>
    ELSE IF toolName = "verification-thinking"
    THEN UNCHANGED <<managerState, file, recommendationHistory>>
    ELSE /\ toolName \notin RegisteredTools =>
                response' = Failed("processToolRequest", "Unknown tool")
         /\ UNCHANGED <<managerState, file, recommendationHistory,
                        verificationState, verificationFile>>

(* C35. As claimed: a request addressed to a tool name is processed only by
   the tool registered under that name, and when no tool is registered under
   it the request is answered with the error "Unknown tool" and is never
   handed to another tool. *)
C35_OnlyTheNamedTool ==
    [][\A toolName \in ToolNameInputs :
        \/ OnlyTheNamedTool(toolName)
        \/ \A input \in RequestInputs : ~ProcessToolRequest(toolName, input)
    ]_vars

\* The request that carries chainId, stepId and verification for the first
\* step of the first chain, with the optional claim and type given.
UpdateStepRequest(claim, type) ==
    [EmptyInput EXCEPT !.chainId = Given(GenerateId("chain", 1)),
                       !.stepId = Given(GenerateId("step", 1)),
                       !.verification = Given("v"),
                       !.claim = claim, !.type = type]

\* The chain holds the step.
ChainHoldsStep(chainId, stepId) ==
    /\ chainId \in DOMAIN chains
    /\ \E i \in 1..Len(chains[chainId].steps) : chains[chainId].steps[i].id = stepId

(* C38. As claimed: a verification request that carries chainId, stepId and
   verification for a step the chain holds updates that step and appends no
   step to the chain, whether or not it also carries claim and type. *)
C38_UpdateNeverAppends ==
    [][\A claim \in {Given("Y"), Undefined}, type \in {Given("logical"), Undefined} :
        (/\ ChainHoldsStep(GenerateId("chain", 1), GenerateId("step", 1))
         /\ ProcessToolRequest("verification-thinking", UpdateStepRequest(claim, type)))
        => /\ response'.op = "updateVerificationStep"
           /\ Len(chains'[GenerateId("chain", 1)].steps) =
                    Len(chains[GenerateId("chain", 1)].steps)
           /\ chainStepCounter' = chainStepCounter]_vars

(* C36. As claimed: in every reachable state a chain whose endTime is set has
   the overallStatus verified; adding a pending step to a verified chain
   leaves no chain in_progress with an endTime. *)
C36_EndTimeMeansVerified ==
    \A chainId \in DOMAIN chains :
        chains[chainId].endTime # Unset => chains[chainId].overallStatus = "verified"

\* The step list of a session keeps its ids and its completed steps.
StepListIsKept(before, after) ==
    /\ StepIdsOf(after) = StepIdsOf(before)
    /\ \A i \in 1..Len(before) : before[i].isComplete => after[i].isComplete

(* C37. For every session in every reachable state the cursor is within the
   step list, 0 <= currentStepIndex < steps.length; and every call keeps
   every session, the ids of its steps in their order, and the isComplete of
   every step that was complete. *)
C37_SessionShape ==
    /\ [](\A sessionId \in DOMAIN sessions :
            /\ sessions[sessionId].currentStepIndex >= 0
            /\ sessions[sessionId].currentStepIndex < Len(StepsOf(sessionId)))
    /\ [][\A sessionId \in DOMAIN sessions :
            /\ sessionId \in DOMAIN sessions'
            /\ sessions'[sessionId].steps = sessions[sessionId].steps
            /\ StepListIsKept(StepsOf(sessionId), heap'[sessions[sessionId].steps])
         ]_vars

C37_Witness ==
    /\ response = Ok("updateStep", "")
    /\ \E sessionId \in DOMAIN sessions :
        /\ Len(StepsOf(sessionId)) > 1
        /\ sessions[sessionId].currentStepIndex = Len(StepsOf(sessionId)) - 1
        /\ \A i \in 1..Len(StepsOf(sessionId)) : StepsOf(sessionId)[i].isComplete

\* The lists of available templates autoSelectTemplate is applied to: none,
\* the catalog, and the catalog without the templates of the category
\* research.
AvailableTemplateLists ==
    {<<>>, GetAllTemplates,
     SelectSeq(GetAllTemplates, LAMBDA t : templates[t].category # "research")}

\* The score recommendTemplate gives the template for the description.
ScoreOf(description, templateId) ==
    TemplateScore(description, templates[templateId],
                  heap[templates[templateId].steps])

\* The choice of autoSelectTemplate is the claimed one.
ClaimedChoice(description, availableTemplates, recommendation) ==
    LET analysis == analysisOf[description]
        ofCategory == {i \in 1..Len(availableTemplates) :
            templates[availableTemplates[i]].category = analysis.category}
    IN  IF Len(availableTemplates) = 0 THEN recommendation = NoRecommendation
        ELSE /\ recommendation.templateId # NoId
             /\ \E i \in 1..Len(availableTemplates) :
                    availableTemplates[i] = recommendation.templateId
             /\ recommendation.score =
                    ScoreOf(description, recommendation.templateId)
             /\ IF analysis.aboveThreshold /\ ofCategory # {}
                THEN templates[recommendation.templateId].category = analysis.category
                ELSE \A i \in 1..Len(availableTemplates) :
                        ScoreOf(description, availableTemplates[i])
                            <= recommendation.score

(* C39. autoSelectTemplate returns no recommendation only when the list of
   available templates is empty; when the confidence of the analysis is above
   0.6 and a template of the identified category is available, the template
   returned has that category; otherwise it is one of the highest score among
   all available templates. *)
C39_AutoSelectChoice ==
    \A description \in ProblemDescriptionInputs \ {""},
       availableTemplates \in AvailableTemplateLists :
        ClaimedChoice(description, availableTemplates,
            AutoSelectRecommendation(description, availableTemplates))

C39_Witness ==
    /\ response = Ok("auto-select-template", "")
    /\ Len(recommendationHistory) > 0
    /\ LET last == recommendationHistory[Len(recommendationHistory)]
       IN  /\ last.context = "Research the literature"
           /\ last.wasAccepted
           /\ templates[last.templateId].category = "research"
           /\ \E i \in 1..Len(GetAllTemplates) :
                ScoreOf(last.context, GetAllTemplates[i]) > last.score

(* C32. As claimed: a template or a chain created by a request handled before
   the initial load has finished is not lost: when the load completes, it is
   still in the catalog in memory and in the persisted data, whatever the
   interleaving. *)
C32_CreatedBeforeLoadIsKept ==
    /\ [][InitializeAsync =>
            \A templateId \in DOMAIN templates \ BuiltInIds :
                /\ templateId \in DOMAIN templates'
                /\ templateId \in DOMAIN file'.templates]_vars
    /\ [][InitializeVerificationAsync =>
            \A chainId \in DOMAIN chains :
                /\ chainId \in DOMAIN chains'
                /\ chainId \in DOMAIN verificationFile'.chains]_vars

(* C33. As claimed: on a first run, where no data file exists,
   PersistenceManager.initialize terminates having stored the default data,
   performed one write and set initialized, and initialize is not entered
   again through save while initialized is unset: it runs once. *)
C33_FirstRunInitializesOnce ==
    [][\A room \in CallDepths :
        FirstRunInitializeAsync(room) =>
            /\ persistence'.initialized
            /\ persistence'.exists
            /\ file' = DefaultTemplateData
            /\ persistence'.writes = persistence.writes + 1
            /\ persistence'.entered = persistence.entered + 1]_vars

====
